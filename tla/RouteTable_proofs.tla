-------------------------- MODULE RouteTable_proofs --------------------------
(***************************************************************************)
(* Proofs about RouteTable: what the tree answers for any configuration,   *)
(* any number of peers and routes and any width of a byte.                 *)
(*                                                                         *)
(* The arithmetic of masks and the search down the tree are functions      *)
(* defined by recursion on numbers.  What they compute is proved by        *)
(* induction in the form of a statement about sets of numbers, which rests *)
(* on the well-foundedness of < in the library.                            *)
(***************************************************************************)
EXTENDS RouteTable, FiniteSetTheorems, SequenceTheorems, WellFoundedInduction, TLAPS

(***************************************************************************)
(* Induction and recursion.                                                *)
(***************************************************************************)
\* A non-empty set of numbers has a least one.
LEMMA LeastNat ==
    ASSUME NEW T \in SUBSET Nat, T # {}
    PROVE  \E x \in T : \A y \in T : x <= y
<1> DEFINE Before == OpToRel(<, Nat)
<1>1. PICK x \in T : \A y \in T : ~(<<y, x>> \in Before)
  <2> HIDE DEF Before
  <2>1. IsWellFoundedOn(Before, Nat)
    BY NatLessThanWellFounded DEF Before
  <2> QED  BY <2>1, WFMin
<1>2. ASSUME NEW y \in T  PROVE x <= y
  <2>1. <<y, x>> \in Nat \X Nat /\ <<y, x>>[1] = y /\ <<y, x>>[2] = x  OBVIOUS
  <2>2. ~(y < x)  BY <1>1, <2>1 DEF OpToRel
  <2> QED  BY <2>2
<1> QED  BY <1>1, <1>2

\* A set with 0 and the successor of each of its numbers has all of them.
LEMMA Induction ==
    ASSUME NEW T \in SUBSET Nat, 0 \in T, \A n \in T : n + 1 \in T
    PROVE  T = Nat
<1> SUFFICES ASSUME T # Nat  PROVE FALSE  OBVIOUS
<1>1. PICK x \in Nat \ T : \A y \in Nat \ T : x <= y
  BY LeastNat
<1>2. x - 1 \in T  BY <1>1
<1> QED  BY <1>1, <1>2

\* A function applied again and again.
Iterates(f, S, first, step) ==
    f \in [Nat -> S] /\ f[0] = first /\ \A n \in Nat : f[n + 1] = step[f[n]]

LEMMA IteratesExist ==
    ASSUME NEW S, NEW first \in S, NEW step \in [S -> S]
    PROVE  \E f : Iterates(f, S, first, step)
<1> DEFINE Prefix(n, g) == /\ g \in [0 .. n -> S] /\ g[0] = first
                           /\ \A i \in 0 .. n - 1 : g[i + 1] = step[g[i]]
           T == {n \in Nat : \E g : Prefix(n, g)}
<1>1. T = Nat
  <2>1. Prefix(0, [i \in 0 .. 0 |-> first])  OBVIOUS
  <2>2. ASSUME NEW n \in T  PROVE n + 1 \in T
    <3>1. PICK g : Prefix(n, g)  OBVIOUS
    <3> DEFINE h == [i \in 0 .. n + 1 |-> IF i <= n THEN g[i] ELSE step[g[n]]]
    <3>2. h \in [0 .. n + 1 -> S] /\ h[0] = first  BY <3>1
    <3>3. ASSUME NEW i \in 0 .. (n + 1) - 1  PROVE h[i + 1] = step[h[i]]
      <4>1. CASE i = n  BY <4>1, <3>1
      <4>2. CASE i < n  BY <4>2, <3>1, i \in 0 .. n - 1, i + 1 <= n
      <4> QED  BY <4>1, <4>2
    <3>4. Prefix(n + 1, h)  BY <3>2, <3>3
    <3> HIDE DEF Prefix
    <3> QED  BY <3>4
  <2> HIDE DEF T
  <2>3. 0 \in T  BY <2>1 DEF T
  <2>4. T \in SUBSET Nat  BY DEF T
  <2> QED  BY <2>2, <2>3, <2>4, Induction
<1>2. ASSUME NEW n \in Nat, NEW g, NEW h, Prefix(n, g), Prefix(n + 1, h)
      PROVE  g[n] = h[n]
  <2> DEFINE U == {i \in Nat : i <= n => g[i] = h[i]}
  <2>1. 0 \in U  BY <1>2
  <2>2. ASSUME NEW i \in U  PROVE i + 1 \in U
    <3>1. CASE i + 1 <= n
      <4>1. g[i + 1] = step[g[i]] /\ h[i + 1] = step[h[i]]
        BY <1>2, <3>1, i \in 0 .. n - 1, i \in 0 .. (n + 1) - 1
      <4> QED  BY <4>1, <3>1
    <3> QED  BY <3>1
  <2> HIDE DEF U
  <2>3. U \in SUBSET Nat  BY DEF U
  <2>4. U = Nat  BY <2>1, <2>2, <2>3, Induction
  <2> QED  BY <2>4 DEF U
<1> DEFINE part(n) == CHOOSE g : Prefix(n, g)
           f == [n \in Nat |-> part(n)[n]]
<1>3. \A n \in Nat : Prefix(n, part(n))
  BY <1>1
<1>4. f \in [Nat -> S]
  <2>1. ASSUME NEW n \in Nat PROVE part(n)[n] \in S
    <3> HIDE DEF part
    <3> QED BY <1>3, n \in 0 .. n
  <2> QED BY <2>1
<1>5. f[0] = first  BY <1>3
<1>6. ASSUME NEW n \in Nat PROVE f[n + 1] = step[f[n]]
  <2>1. part(n)[n] = part(n + 1)[n]
    <3> HIDE DEF part, Prefix
    <3> QED BY <1>2, <1>3
  <2>2. part(n + 1)[n + 1] = step[part(n + 1)[n]]
    <3> HIDE DEF part
    <3>1. Prefix(n + 1, part(n + 1))
      <4> HIDE DEF Prefix
      <4> QED  BY <1>3, n + 1 \in Nat
    <3> QED BY <3>1, n \in 0 .. (n + 1) - 1
  <2> HIDE DEF part
  <2> QED BY <2>1, <2>2
<1> HIDE DEF f
<1> QED BY <1>4, <1>5, <1>6 DEF Iterates

(***************************************************************************)
(* Addresses under a mask.                                                 *)
(***************************************************************************)
LEMMA TwoToDef ==
    /\ TwoTo \in [Nat -> Nat \ {0}]
    /\ TwoTo[0] = 1
    /\ \A n \in Nat : TwoTo[n + 1] = 2 * TwoTo[n]
<1> DEFINE S == Nat \ {0}
           step == [x \in S |-> 2 * x]
           Def(f) == f = [n \in Nat |-> IF n = 0 THEN 1 ELSE 2 * f[n - 1]]
<1>0. PICK f : Iterates(f, S, 1, step)
  <2>1. 1 \in S /\ step \in [S -> S]  OBVIOUS
  <2> HIDE DEF S, step, Def
  <2> QED  BY <2>1, IteratesExist
<1>1. f \in [Nat -> S] /\ f[0] = 1 /\ \A n \in Nat : f[n + 1] = step[f[n]]
  <2> HIDE DEF S, step, Def
  <2> QED  BY <1>0 DEF Iterates
<1>2. Def(f)
  <2> SUFFICES ASSUME NEW n \in Nat
               PROVE  f[n] = IF n = 0 THEN 1 ELSE 2 * f[n - 1]
    BY <1>1
  <2>1. CASE n = 0  BY <1>1, <2>1
  <2>2. CASE n # 0
    <3>1. n - 1 \in Nat /\ (n - 1) + 1 = n  BY <2>2
    <3>2. f[n - 1] \in S /\ f[(n - 1) + 1] = step[f[n - 1]]  BY <1>1, <3>1
    <3> QED  BY <3>1, <3>2, <2>2
  <2> QED  BY <2>1, <2>2
<1>3. Def(TwoTo)
  BY <1>2 DEF TwoTo
<1>4. TwoTo[0] = 1 /\ \A n \in Nat : TwoTo[n + 1] = 2 * TwoTo[n]
  <2> HIDE DEF Def
  <2>1. ASSUME NEW n \in Nat PROVE TwoTo[n] = IF n = 0 THEN 1 ELSE 2 * TwoTo[n - 1]
    BY <1>3 DEF Def
  <2>2. ASSUME NEW n \in Nat PROVE TwoTo[n + 1] = 2 * TwoTo[n]
    <3>1. n + 1 \in Nat /\ n + 1 # 0 /\ (n + 1) - 1 = n  OBVIOUS
    <3> QED  BY <2>1, <3>1
  <2> QED  BY <2>1, <2>2
<1>5. TwoTo \in [Nat -> S]
  <2> DEFINE T == {n \in Nat : TwoTo[n] \in S}
  <2>1. 0 \in T  BY <1>4
  <2>2. \A n \in T : n + 1 \in T  BY <1>4
  <2>3. T = Nat
    <3> HIDE DEF T
    <3>1. T \in SUBSET Nat BY DEF T
    <3> QED BY <2>1, <2>2, <3>1, Induction
  <2>4. TwoTo = [n \in Nat |-> TwoTo[n]]
    <3> HIDE DEF S, T
    <3> QED BY <1>3 
  <2> QED  BY <2>3, <2>4
<1> QED  BY <1>4, <1>5

LEMMA TwoToSum == \A m, n \in Nat : TwoTo[m + n] = TwoTo[m] * TwoTo[n]
<1> SUFFICES ASSUME NEW m \in Nat PROVE \A n \in Nat : TwoTo[m + n] = TwoTo[m] * TwoTo[n]
  OBVIOUS
<1> DEFINE T == {n \in Nat : TwoTo[m + n] = TwoTo[m] * TwoTo[n]}
<1>1. 0 \in T  BY TwoToDef
<1>2. ASSUME NEW n \in T PROVE n + 1 \in T
  <2>1. TwoTo[m + (n + 1)] = 2 * TwoTo[m + n]  BY TwoToDef, m + (n + 1) = (m + n) + 1, m + n \in Nat
  <2>2. TwoTo[m + n] = TwoTo[m] * TwoTo[n]  OBVIOUS
  <2>3. TwoTo[n + 1] = 2 * TwoTo[n]  BY TwoToDef
  <2>4. TwoTo[m] \in Nat /\ TwoTo[n] \in Nat  BY TwoToDef
  <2>5. \A x, y \in Nat : 2 * (x * y) = x * (2 * y)  OBVIOUS
  <2> QED  BY <2>1, <2>2, <2>3, <2>4, <2>5
<1> HIDE DEF T
<1>3. T = Nat
  <2>1. T \in SUBSET Nat  BY DEF T
  <2> QED  BY <1>1, <1>2, <2>1, Induction
<1> QED  BY <1>3 DEF T

LEMMA DivMod ==
    \A a \in Nat, q \in Nat \ {0} :
        /\ a \div q \in Nat /\ a % q \in 0 .. q - 1
        /\ a = q * (a \div q) + (a % q)
  OBVIOUS

LEMMA ModOfMultiple == \A k \in Nat, q \in Nat \ {0} : (q * k) % q = 0
<1> TAKE k \in Nat, q \in Nat \ {0}
<1> DEFINE b == (q * k) \div q
           d == (q * k) % q
<1>1. q * k \in Nat  OBVIOUS
<1>2. b \in Nat /\ d \in 0 .. q - 1 /\ q * k = q * b + d  BY <1>1, DivMod
<1> HIDE DEF b, d
<1>3. CASE b >= k
  <2>1. q * b >= q * k  BY <1>3, <1>2
  <2> QED  BY <2>1, <1>1, <1>2 DEF d
<1>4. CASE b < k
  <2>1. b + 1 <= k BY <1>4, <1>2
  <2>2. q * (b + 1) <= q * k  BY <2>1, <1>2
  <2>3. q * (b + 1) = q * b + q BY <1>2
  <2> QED  BY <2>2, <2>3, <1>1, <1>2
<1> QED  BY <1>2, <1>3, <1>4

LEMMA AddrProperties ==
    /\ AddrBits \in Nat /\ AddrBits > 0
    /\ \A len \in 0 .. AddrBits : AddrBits - len \in Nat /\ TwoTo[AddrBits - len] \in Nat \ {0}
    /\ TwoTo[AddrBits] = TwoTo[ByteBits] * TwoTo[ByteBits]
    /\ TwoTo[ByteBits] \in Nat \ {0}
    /\ Addr \subseteq Nat
<1>1. ByteBits \in Nat /\ ByteBits > 0  BY BitsAssumption
<1>2. AddrBits = ByteBits + ByteBits  BY <1>1 DEF AddrBits
<1>3. \A len \in 0 .. AddrBits : AddrBits - len \in Nat  BY <1>1, <1>2
<1>4. TwoTo[AddrBits] = TwoTo[ByteBits] * TwoTo[ByteBits]  BY <1>1, <1>2, TwoToSum
<1>5. \A n \in Nat : TwoTo[n] \in Nat \ {0}  BY TwoToDef
<1>6. AddrBits \in Nat /\ AddrBits > 0  BY <1>1, <1>2
<1>7. Addr \subseteq Nat  BY <1>5, <1>6 DEF Addr
<1> QED  BY <1>1, <1>3, <1>4, <1>5, <1>6, <1>7

\* Masking keeps an address an address and a second time changes nothing.
LEMMA BitsProperties ==
    ASSUME NEW a \in Addr, NEW len \in 0 .. AddrBits
    PROVE  /\ Bits(a, len) \in Addr
           /\ Bits(Bits(a, len), len) = Bits(a, len)
           /\ len = 0 => Bits(a, len) = 0
           /\ len = AddrBits => Bits(a, len) = a
<1> DEFINE q == TwoTo[AddrBits - len]
           k == a \div q
<1>1. q \in Nat \ {0} /\ a \in Nat /\ Bits(a, len) = a - (a % q)
  BY AddrProperties DEF Bits
<1>2. k \in Nat /\ a % q \in 0 .. q - 1 /\ a = q * k + (a % q)
  <2> HIDE DEF q
  <2> QED  BY <1>1, DivMod
<1>3. Bits(a, len) = q * k /\ Bits(a, len) \in Nat
  <2> HIDE DEF q, k
  <2>1. q * k \in Nat  BY <1>1, <1>2
  <2> QED BY <1>1, <1>2, <2>1
<1>4. Bits(a, len) \in Addr
  BY <1>1, <1>2, <1>3, AddrProperties DEF Addr
<1>5. Bits(Bits(a, len), len) = Bits(a, len)
  <2>1. Bits(Bits(a, len), len) = Bits(a, len) - (Bits(a, len) % q)  BY DEF Bits
  <2> HIDE DEF q, k
  <2>2. Bits(a, len) % q = 0  BY <1>1, <1>2, <1>3, ModOfMultiple
  <2> QED  BY <2>1, <2>2, <1>3
<1>6. ASSUME len = 0 PROVE Bits(a, len) = 0
  <2>1. q = TwoTo[AddrBits]  BY <1>6, AddrProperties
  <2>2. a < q  BY <2>1, AddrProperties DEF Addr
  <2> HIDE DEF q
  <2>3. a % q = a  BY <2>2, <1>1
  <2> QED  BY <2>3, <1>1
<1>7. ASSUME len = AddrBits PROVE Bits(a, len) = a
  <2>1. q = 1  BY <1>7, TwoToDef, AddrProperties
  <2> QED  BY <2>1, <1>1, <1>2
<1> QED  BY <1>4, <1>5, <1>6, <1>7

LEMMA MaskedBits ==
    ASSUME NEW a \in Addr, NEW len \in 0 .. AddrBits
    PROVE  /\ len > 0 => Masked(a, len) = Bits(a, len)
           /\ Masked(a, len) \in Addr
           /\ Masked(Masked(a, len), len) = Masked(a, len)
           /\ Masked(a, AddrBits) = a
<1>1. 0 \in Addr  BY AddrProperties, TwoToDef DEF Addr
<1>2. \A b \in Addr : len > 0 => Masked(b, len) = Bits(b, len)  BY DEF Masked, Bits
<1>3. Masked(a, AddrBits) = Bits(a, AddrBits)
  BY AddrProperties DEF Masked, Bits
<1>4. Masked(a, AddrBits) = a
  <2>1. AddrBits \in 0 .. AddrBits  BY AddrProperties
  <2> QED  BY <1>3, <2>1, BitsProperties
<1>5. CASE len > 0
  BY <1>5, <1>2, <1>4, BitsProperties
<1>6. CASE len = 0
  <2>1. \A b \in Addr : Masked(b, len) = IF shift32 = "all" THEN b ELSE 0
    BY <1>6 DEF Masked
  <2> QED  BY <2>1, <1>1, <1>4, <1>6
<1> QED  BY <1>5, <1>6

\* The order of bytes in which addresses are compared loses none of their bits.
LEMMA s_addrInjective ==
    ASSUME NEW a \in Addr, NEW b \in Addr, s_addr(a) = s_addr(b)
    PROVE  a = b
<1> DEFINE B == TwoTo[ByteBits]
<1>1. B \in Nat \ {0} /\ a \in 0 .. B * B - 1 /\ b \in 0 .. B * B - 1
  BY AddrProperties DEF Addr
<1>2. s_addr(a) = (a % B) * B + a \div B /\ s_addr(b) = (b % B) * B + b \div B
  BY DEF s_addr
<1> HIDE DEF B
<1>3. \A c \in 0 .. B * B - 1 : /\ c % B \in 0 .. B - 1 /\ c \div B \in 0 .. B - 1
                               /\ c = B * (c \div B) + (c % B)
  <2> TAKE c \in 0 .. B * B - 1
  <2>0. B * B \in Nat /\ c \in Nat BY <1>1
  <2>1. c % B \in 0 .. B - 1 /\ c \div B \in Nat /\ c = B * (c \div B) + (c % B)
    BY <1>1, <2>0, DivMod
  <2>2. c \div B < B
    <3> DEFINE d == c \div B
    <3>1. d \in Nat /\ B * d <= c BY <2>1, <2>0, <1>1
    <3>2. B * d < B * B BY <3>1, <2>0, <1>1
    <3> HIDE DEF d
    <3>3. ASSUME d >= B PROVE FALSE
      <4>1. B * d >= B * B BY <3>3, <3>1, <1>1
      <4> QED BY <4>1, <3>2, <3>1, <2>0, <1>1
    <3> QED BY <3>1, <3>3, <1>1 DEF d
  <2> QED BY <2>1, <2>2, <1>1
<1> DEFINE x == a % B
           y == b % B
           u == a \div B
           v == b \div B
<1>4. /\ x \in 0 .. B - 1 /\ y \in 0 .. B - 1 /\ u \in 0 .. B - 1 /\ v \in 0 .. B - 1
      /\ a = B * u + x /\ b = B * v + y /\ x * B + u = y * B + v
  BY <1>1, <1>2, <1>3, Zenon
<1> HIDE DEF x, y, u, v
<1>5. x = y
  <2>1. ASSUME NEW g \in Nat, NEW h \in Nat, NEW s \in 0 .. B - 1, NEW t \in 0 .. B - 1,
               g * B + s = h * B + t
        PROVE  ~(g < h)
    <3> SUFFICES ASSUME g < h PROVE FALSE  OBVIOUS
    <3>1. (g + 1) * B <= h * B  BY <1>1
    <3>2. (g + 1) * B = g * B + B  BY <1>1
    <3>3. g * B \in Nat /\ h * B \in Nat  BY <1>1
    <3> QED  BY <3>1, <3>2, <3>3, <2>1, <1>1
  <2>2. ~(x < y) /\ ~(y < x)  BY <2>1, <1>1, <1>4
  <2> QED  BY <2>2, <1>4, <1>1
<1>6. u = v
  <2>1. x * B \in Nat BY <1>1, <1>4
  <2> QED BY <1>4, <1>5, <1>1, <2>1
<1> QED  BY <1>4, <1>5, <1>6

LEMMA s_addrInt == \A a \in Addr : s_addr(a) \in Nat
<1> TAKE a \in Addr
<1> DEFINE B == TwoTo[ByteBits]
<1>1. B \in Nat \ {0} /\ a \in Nat  BY AddrProperties
<1>2. a % B \in Nat /\ a \div B \in Nat
  <2> HIDE DEF B
  <2> QED  BY <1>1, DivMod
<1>3. \A x, y, z \in Nat : x * y + z \in Nat  OBVIOUS
<1> QED  BY <1>1, <1>2, <1>3 DEF s_addr

(***************************************************************************)
(* The tree.                                                               *)
(***************************************************************************)
Key   == [net : Addr, len : 0 .. AddrBits]
Entry == [key : Key, callsign : Nat \ {0}, born : Nat]

\* Every rank in a finite set of numbers is somebody's.
LEMMA Ranks ==
    ASSUME NEW T \in SUBSET Nat, IsFiniteSet(T)
    PROVE  \A k \in Nat : k < Cardinality(T) =>
               \E i \in T : Cardinality({j \in T : j < i}) = k
<1> DEFINE Lower(i) == {j \in T : j < i}
           K == {k \in Nat : k < Cardinality(T) => \E i \in T : Cardinality(Lower(i)) = k}
<1>1. 0 \in K
  <2> SUFFICES ASSUME 0 < Cardinality(T) PROVE \E i \in T : Cardinality(Lower(i)) = 0
    OBVIOUS
  <2>1. T # {}  BY FS_EmptySet
  <2>2. PICK i \in T : \A j \in T : i <= j  BY <2>1, LeastNat
  <2>3. Lower(i) = {}
    <3>1. \A j \in T : ~(j < i)  BY <2>2
    <3> QED  BY <3>1
  <2> QED  BY <2>3, FS_EmptySet
<1>2. ASSUME NEW k \in K PROVE k + 1 \in K
  <2> SUFFICES ASSUME k + 1 < Cardinality(T) PROVE \E i \in T : Cardinality(Lower(i)) = k + 1
    OBVIOUS
  <2>0. Cardinality(T) \in Nat  BY FS_CardinalityType
  <2>1. PICK i \in T : Cardinality(Lower(i)) = k  BY <2>0
  <2>2. IsFiniteSet(Lower(i)) /\ i \notin Lower(i)
    BY FS_Subset
  <2>3. Cardinality(Lower(i) \cup {i}) = k + 1
    <3> HIDE DEF Lower
    <3> QED BY <2>1, <2>2, FS_AddElement
  <2> DEFINE Upper == T \ (Lower(i) \cup {i})
  <2>4. Upper # {}
    <3>1. SUFFICES ASSUME T \subseteq Lower(i) \cup {i} PROVE FALSE  OBVIOUS
    <3>2. T = Lower(i) \cup {i}  BY <3>1
    <3> QED BY <2>3, <3>2, <2>0
  <2>5. PICK h \in Upper : \A j \in Upper : h <= j
    <3>1. Upper \in SUBSET Nat  OBVIOUS
    <3> HIDE DEF Upper
    <3> QED BY <2>4, <3>1, LeastNat
  <2>6. Lower(h) = Lower(i) \cup {i}
    <3>1. h > i  BY <2>5
    <3>2. ASSUME NEW j \in T, j < h PROVE j < i \/ j = i  BY <3>2, <2>5
    <3>3. ASSUME NEW j \in T PROVE j < i => j < h  BY <3>1
    <3> QED BY <3>1, <3>2, <3>3
  <2> QED BY <2>3, <2>5, <2>6
<1>3. K \in SUBSET Nat  OBVIOUS
<1>4. K = Nat
  <2> HIDE DEF K
  <2> QED  BY <1>1, <1>2, <1>3, Induction
<1> QED  BY <1>4

\* The root of a subtree is one of its keys.
LEMMA RootInside ==
    ASSUME NEW m \in Seq(Entry), NEW lo \in 1 .. Len(m), NEW hi \in lo .. Len(m)
    PROVE  Root(m, lo, hi) \in lo .. hi
<1> DEFINE Older(i) == {j \in lo .. hi : m[j].born < m[i].born}
           limit    == IF hi - lo >= 2 THEN 3 ELSE 1
           oldest   == {i \in lo .. hi : Cardinality(Older(i)) < limit}
<1>0. Len(m) \in Nat /\ \A i \in lo .. hi : i \in 1 .. Len(m) /\ m[i].born \in Nat
  <2>1. Len(m) \in Nat  BY LenProperties
  <2>2. \A i \in 1 .. Len(m) : m[i] \in Entry  BY ElementOfSeq
  <2> QED BY <2>1, <2>2 DEF Entry
<1>1. oldest # {}
  <2> DEFINE B == {m[i].born : i \in lo .. hi}
  <2>1. B \in SUBSET Nat /\ B # {}
    <3>1. lo \in lo .. hi  BY <1>0
    <3> QED BY <1>0, <3>1
  <2>2. PICK b \in B : \A c \in B : b <= c
    <3> HIDE DEF B
    <3> QED BY <2>1, LeastNat
  <2>3. PICK i \in lo .. hi : m[i].born = b  OBVIOUS
  <2>4. Older(i) = {}
    <3>1. ASSUME NEW j \in lo .. hi PROVE ~(m[j].born < m[i].born)
      <4>1. m[j].born \in B  OBVIOUS
      <4>2. b <= m[j].born  BY <4>1, <2>2
      <4> QED  BY <4>2, <2>3, <1>0
    <3> QED  BY <3>1
  <2>5. i \in oldest
    <3>1. Cardinality(Older(i)) = 0  BY <2>4, FS_EmptySet
    <3>2. limit > 0  OBVIOUS
    <3> HIDE DEF limit, Older
    <3> QED  BY <3>1, <3>2
  <2> QED BY <2>5
<1>2. IsFiniteSet(oldest) /\ oldest \in SUBSET Nat
  <2>1. oldest \in SUBSET (lo .. hi)  OBVIOUS
  <2>2. lo .. hi \subseteq Nat  BY <1>0
  <2>3. IsFiniteSet(lo .. hi)
    <3>1. lo \in Int /\ hi \in Int  BY <1>0
    <3> QED  BY <3>1, FS_Interval
  <2> HIDE DEF oldest
  <2> QED BY <2>1, <2>2, <2>3, FS_Subset
<1>3. Cardinality(oldest) \in Nat /\ Cardinality(oldest) # 0
  <2> HIDE DEF oldest
  <2> QED  BY <1>1, <1>2, FS_CardinalityType, FS_EmptySet
<1>4. \E i \in oldest : Cardinality({j \in oldest : j < i}) = Cardinality(oldest) \div 2
  <2> HIDE DEF oldest
  <2> DEFINE c == Cardinality(oldest)
  <2>1. c \div 2 \in Nat /\ c \div 2 < c  BY <1>3
  <2> QED BY <2>1, <1>2, Ranks
<1>5. Root(m, lo, hi) = CHOOSE i \in oldest :
                          Cardinality({j \in oldest : j < i}) = Cardinality(oldest) \div 2
  BY DEF Root
<1>6. Root(m, lo, hi) \in oldest
  <2> HIDE DEF oldest
  <2> QED  BY <1>4, <1>5
<1> QED  BY <1>6

\* Where the leaf can still be: the keys before these places lead to the right,
\* those after them to the left.
Span(m) == {s \in [lo : 1 .. Len(m) + 1, hi : 0 .. Len(m)] : s.lo <= s.hi + 1}

Bracketed(m, right, s) ==
    /\ s.hi < Len(m) => s.hi + 1 \notin right
    /\ s.lo > 1 => s.lo - 1 \in right

LEMMA DescendNarrows ==
    ASSUME NEW m \in Seq(Entry), NEW right, NEW s \in Span(m)
    PROVE  LET t == Descend(m, right, s)
           IN  /\ t \in Span(m)
               /\ Bracketed(m, right, s) => Bracketed(m, right, t)
               /\ s.lo <= s.hi => t.hi - t.lo < s.hi - s.lo
               /\ s.lo > s.hi => t = s
<1>0. Len(m) \in Nat  BY LenProperties
<1>1. CASE s.lo > s.hi
  BY <1>1 DEF Descend, Span
<1>2. CASE s.lo <= s.hi
  <2> DEFINE x == Root(m, s.lo, s.hi)
  <2>1. x \in s.lo .. s.hi
    BY <1>0, <1>2, RootInside DEF Span
  <2>2. s.lo \in 1 .. Len(m) + 1 /\ s.hi \in 0 .. Len(m)  BY DEF Span
  <2> HIDE DEF x
  <2>3. CASE x \in right
    <3>1. Descend(m, right, s) = [lo |-> x + 1, hi |-> s.hi]
      BY <2>3, <2>2, <1>2, <1>0 DEF Descend, x
    <3>2. [lo |-> x + 1, hi |-> s.hi] \in Span(m)
      BY <2>1, <2>2, <1>0 DEF Span
    <3> QED BY <3>1, <3>2, <2>1, <2>2, <2>3, <1>0, <1>2 DEF Bracketed
  <2>4. CASE x \notin right
    <3>1. Descend(m, right, s) = [lo |-> s.lo, hi |-> x - 1]
      BY <2>4, <2>2, <1>2, <1>0 DEF Descend, x
    <3>2. [lo |-> s.lo, hi |-> x - 1] \in Span(m)
      BY <2>1, <2>2, <1>0 DEF Span
    <3> QED BY <3>1, <3>2, <2>1, <2>2, <2>4, <1>0, <1>2 DEF Bracketed
  <2> QED BY <2>3, <2>4
<1>3. s.lo \in Int /\ s.hi \in Int  BY <1>0 DEF Span
<1> QED BY <1>1, <1>2, <1>3

\* The way down ends between a key that leads to the right and one that does not,
\* in whatever order they are.
LEMMA LeafPlace ==
    ASSUME NEW m \in Seq(Entry), NEW right
    PROVE  /\ Leaf(m, right) \in 1 .. Len(m) + 1
           /\ Leaf(m, right) <= Len(m) => Leaf(m, right) \notin right
           /\ Leaf(m, right) > 1 => Leaf(m, right) - 1 \in right
<1> DEFINE top    == [lo |-> 1, hi |-> Len(m)]
           step   == [s \in Span(m) |-> Descend(m, right, s)]
           Def(f) == f = [n \in Nat |-> IF n = 0 THEN top ELSE Descend(m, right, f[n - 1])]
           down   == CHOOSE f : Def(f)
<1>0. Len(m) \in Nat  BY LenProperties
<1>1. top \in Span(m)  BY <1>0 DEF Span
<1>2. \E f : Def(f)
  <2>1. step \in [Span(m) -> Span(m)]  BY DescendNarrows
  <2>2. PICK f : Iterates(f, Span(m), top, step)
    <3> HIDE DEF step, Def, top, down
    <3> QED  BY <2>1, <1>1, IteratesExist
  <2>3. f \in [Nat -> Span(m)] /\ f[0] = top /\ \A n \in Nat : f[n + 1] = step[f[n]]
    <3> HIDE DEF step, Def, top, down
    <3> QED  BY <2>2 DEF Iterates
  <2> SUFFICES ASSUME NEW n \in Nat
               PROVE  f[n] = IF n = 0 THEN top ELSE Descend(m, right, f[n - 1])
    <3> HIDE DEF top
    <3> QED BY <2>3
  <2>4. CASE n = 0  BY <2>3, <2>4
  <2>5. CASE n # 0
    <3>1. n - 1 \in Nat /\ (n - 1) + 1 = n  BY <2>5
    <3>2. f[n - 1] \in Span(m) /\ f[(n - 1) + 1] = step[f[n - 1]]  BY <2>3, <3>1
    <3> QED  BY <3>1, <3>2, <2>5
  <2> QED  BY <2>4, <2>5
<1>3. Def(down)
  <2> HIDE DEF Def
  <2> QED BY <1>2
<1>4. Leaf(m, right) = down[Len(m)].lo  BY DEF Leaf
<1> HIDE DEF down
<1>5. down[0] = top /\ \A n \in Nat : down[n + 1] = Descend(m, right, down[n])
  <2>1. ASSUME NEW n \in Nat
        PROVE  down[n] = IF n = 0 THEN top ELSE Descend(m, right, down[n - 1])
    <3> HIDE DEF top
    <3> QED BY <1>3
  <2>2. ASSUME NEW n \in Nat PROVE down[n + 1] = Descend(m, right, down[n])
    <3>1. n + 1 \in Nat /\ n + 1 # 0 /\ (n + 1) - 1 = n  OBVIOUS
    <3> HIDE DEF top
    <3> QED  BY <2>1, <3>1
  <2> HIDE DEF Def, top
  <2> QED  BY <2>1, <2>2
<1> HIDE DEF Def
<1> DEFINE T == {n \in Nat : /\ down[n] \in Span(m) /\ Bracketed(m, right, down[n])
                             /\ \/ down[n].lo > down[n].hi
                                \/ down[n].hi - down[n].lo < Len(m) - n}
<1>6. 0 \in T
  <2>1. Bracketed(m, right, top)  BY <1>0 DEF Bracketed
  <2> QED BY <2>1, <1>1, <1>5, <1>0
<1>7. ASSUME NEW n \in T PROVE n + 1 \in T
  <2> DEFINE s == down[n]
             t == down[n + 1]
  <2>1. s \in Span(m) /\ Bracketed(m, right, s)  OBVIOUS
  <2>2. t = Descend(m, right, s)  BY <1>5
  <2>3. /\ t \in Span(m) /\ Bracketed(m, right, t)
        /\ s.lo <= s.hi => t.hi - t.lo < s.hi - s.lo
        /\ s.lo > s.hi => t = s
    <3> HIDE DEF T, s, t
    <3> QED BY <2>1, <2>2, DescendNarrows
  <2>4. s.lo > s.hi \/ s.hi - s.lo < Len(m) - n  OBVIOUS
  <2>5. s.lo \in Int /\ s.hi \in Int /\ t.lo \in Int /\ t.hi \in Int /\ n \in Nat
    BY <2>1, <2>3, <1>0 DEF Span
  <2>6. t.lo > t.hi \/ t.hi - t.lo < Len(m) - (n + 1)
    <3> HIDE DEF s, t, T
    <3> QED BY <2>3, <2>4, <2>5, <1>0
  <2> QED BY <2>3, <2>6
<1>8. T = Nat
  <2> HIDE DEF T
  <2>1. T \in SUBSET Nat  BY DEF T
  <2> QED  BY <1>6, <1>7, <2>1, Induction
<1>9. Len(m) \in T  BY <1>8, <1>0
<1> DEFINE s == down[Len(m)]
<1>10. s \in Span(m) /\ Bracketed(m, right, s) /\ (s.lo > s.hi \/ s.hi - s.lo < 0)
  BY <1>9, <1>0
<1> HIDE DEF s
<1>11. s.lo = s.hi + 1 /\ s.lo \in 1 .. Len(m) + 1
  BY <1>10, <1>0 DEF Span
<1>12. s.hi = s.lo - 1 /\ s.hi + 1 = s.lo /\ s.hi \in Int  BY <1>10, <1>11, <1>0 DEF Span
<1>13. /\ s.lo <= Len(m) => s.lo \notin right
       /\ s.lo > 1 => s.lo - 1 \in right
  BY <1>10, <1>11, <1>12, <1>0 DEF Bracketed
<1>14. Leaf(m, right) = s.lo  BY <1>4 DEF s
<1> QED  BY <1>11, <1>13, <1>14

\* What InsertAt does to a sequence.
Insertion(t, s, i, e) ==
    /\ Len(t) = Len(s) + 1
    /\ \A j \in 1 .. Len(s) + 1 :
          t[j] = IF j < i THEN s[j] ELSE IF j = i THEN e ELSE s[j - 1]

LEMMA InsertAtProperties ==
    ASSUME NEW S, NEW s \in Seq(S), NEW i \in 1 .. Len(s) + 1, NEW e \in S
    PROVE  InsertAt(s, i, e) \in Seq(S) /\ Insertion(InsertAt(s, i, e), s, i, e)
<1> DEFINE u == SubSeq(s, 1, i - 1)
           v == SubSeq(s, i, Len(s))
           w == u \o <<e>>
           t == w \o v
<1>0. Len(s) \in Nat /\ \A j \in 1 .. Len(s) : s[j] \in S
  BY LenProperties, ElementOfSeq
<1>1. u \in Seq(S) /\ Len(u) = i - 1 /\ \A j \in 1 .. i - 1 : u[j] = s[j]
  <2>1. \A j \in 1 .. i - 1 : s[j] \in S  BY <1>0
  <2>2. /\ SubSeq(s, 1, i - 1) \in Seq(S)
        /\ Len(SubSeq(s, 1, i - 1)) = IF 1 <= i - 1 THEN (i - 1) - 1 + 1 ELSE 0
        /\ \A j \in 1 .. (i - 1) - 1 + 1 : SubSeq(s, 1, i - 1)[j] = s[1 + j - 1]
    BY <2>1, <1>0, SubSeqProperties, 1 \in Int, i - 1 \in Int
  <2> HIDE DEF u
  <2> QED  BY <2>2, <1>0 DEF u
<1>2. v \in Seq(S) /\ Len(v) = Len(s) - i + 1 /\ \A j \in 1 .. Len(s) - i + 1 : v[j] = s[i + j - 1]
  <2>1. \A j \in i .. Len(s) : s[j] \in S  BY <1>0
  <2>2. /\ SubSeq(s, i, Len(s)) \in Seq(S)
        /\ Len(SubSeq(s, i, Len(s))) = IF i <= Len(s) THEN Len(s) - i + 1 ELSE 0
        /\ \A j \in 1 .. Len(s) - i + 1 : SubSeq(s, i, Len(s))[j] = s[i + j - 1]
    BY <2>1, <1>0, SubSeqProperties, i \in Int
  <2> QED  BY <2>2, <1>0
<1> HIDE DEF u, v
<1>3. <<e>> \in Seq(S) /\ Len(<<e>>) = 1 /\ <<e>>[1] = e  OBVIOUS
<1>4. w \in Seq(S) /\ Len(w) = i /\ \A j \in 1 .. i : w[j] = IF j < i THEN s[j] ELSE e
  <2>1. w \in Seq(S) /\ Len(w) = Len(u) + 1
        /\ \A j \in 1 .. Len(u) + 1 : w[j] = IF j <= Len(u) THEN u[j] ELSE <<e>>[j - Len(u)]
    BY <1>1, <1>3, ConcatProperties
  <2> HIDE DEF w
  <2> QED BY <2>1, <1>0, <1>1, <1>3
<1> HIDE DEF w
<1>5. t \in Seq(S) /\ Len(t) = Len(w) + Len(v)
      /\ \A j \in 1 .. Len(w) + Len(v) : t[j] = IF j <= Len(w) THEN w[j] ELSE v[j - Len(w)]
  BY <1>2, <1>4, ConcatProperties
<1>6. InsertAt(s, i, e) = t  BY DEF InsertAt, t, w, u, v
<1> HIDE DEF t
<1>7. Len(t) = Len(s) + 1  BY <1>5, <1>4, <1>2, <1>0
<1>8. ASSUME NEW j \in 1 .. Len(s) + 1
      PROVE  t[j] = IF j < i THEN s[j] ELSE IF j = i THEN e ELSE s[j - 1]
  <2>1. CASE j <= i  BY <2>1, <1>4, <1>5, <1>2, <1>0
  <2>2. CASE j > i
    <3>1. t[j] = v[j - i] /\ j - i \in 1 .. Len(s) - i + 1  BY <2>2, <1>4, <1>5, <1>2, <1>0
    <3>2. v[j - i] = s[i + (j - i) - 1]  BY <3>1, <1>2
    <3> QED  BY <3>1, <3>2, <2>2, <1>0
  <2> QED  BY <2>1, <2>2, <1>0
<1> QED BY <1>5, <1>6, <1>7, <1>8 DEF Insertion

LEMMA FindPlace ==
    ASSUME NEW m \in Seq(Entry), NEW k
    PROVE  \E i \in 1 .. Len(m) + 1 :
               /\ Find(m, k) = IF i <= Len(m) /\ ~Less(k, m[i].key) THEN m[i].callsign ELSE 0
               /\ i <= Len(m) => ~Less(m[i].key, k)
               /\ i > 1 => Less(m[i - 1].key, k)
<1> DEFINE right == {j \in DOMAIN m : Less(m[j].key, k)}
           i == Leaf(m, right)
<1>1. Len(m) \in Nat /\ DOMAIN m = 1 .. Len(m)  BY LenProperties
<1>2. i \in 1 .. Len(m) + 1 /\ (i <= Len(m) => i \notin right) /\ (i > 1 => i - 1 \in right)
  <2> HIDE DEF right
  <2> QED  BY LeafPlace
<1>3. Find(m, k) = IF i \in DOMAIN m /\ ~Less(k, m[i].key) THEN m[i].callsign ELSE 0
  BY DEF Find
<1> HIDE DEF i
<1>4. i \in DOMAIN m <=> i <= Len(m)  BY <1>1, <1>2
<1> QED  BY <1>1, <1>2, <1>3, <1>4

LEMMA InsertPlace ==
    ASSUME NEW m \in Seq(Entry), NEW k \in Key, NEW c \in Nat \ {0}
    PROVE  \E i \in 1 .. Len(m) + 1 :
               /\ i <= Len(m) => Less(k, m[i].key)
               /\ i > 1 => ~Less(k, m[i - 1].key)
               /\ \/ /\ i = 1 \/ Less(m[i - 1].key, k)
                     /\ Insert(m, k, c) = InsertAt(m, i, [key |-> k, callsign |-> c, born |-> Len(m)])
                  \/ /\ i > 1 /\ ~Less(m[i - 1].key, k)
                     /\ Insert(m, k, c) = m
<1> DEFINE right == {j \in DOMAIN m : ~Less(k, m[j].key)}
           i == Leaf(m, right)
<1>1. Len(m) \in Nat /\ DOMAIN m = 1 .. Len(m)  BY LenProperties
<1>2. i \in 1 .. Len(m) + 1 /\ (i <= Len(m) => i \notin right) /\ (i > 1 => i - 1 \in right)
  <2> HIDE DEF right
  <2> QED  BY LeafPlace
<1>3. Insert(m, k, c) = IF i = 1 \/ Less(m[i - 1].key, k)
                          THEN InsertAt(m, i, [key |-> k, callsign |-> c, born |-> Len(m)])
                          ELSE m
  BY DEF Insert
<1> HIDE DEF i
<1>4. i \in DOMAIN m <=> i <= Len(m)  BY <1>1, <1>2
<1>5. CASE i = 1 \/ Less(m[i - 1].key, k)  BY <1>1, <1>2, <1>3, <1>4, <1>5
<1>6. CASE ~(i = 1 \/ Less(m[i - 1].key, k))
  <2>1. i > 1  BY <1>6, <1>2, <1>1
  <2> QED  BY <1>1, <1>2, <1>3, <1>4, <1>6, <2>1
<1> QED  BY <1>5, <1>6

LEMMA InsertEntries ==
    ASSUME NEW m \in Seq(Entry), NEW k \in Key, NEW c \in Nat \ {0}
    PROVE  /\ Insert(m, k, c) \in Seq(Entry)
           /\ \A j \in 1 .. Len(Insert(m, k, c)) :
                 \/ \E h \in 1 .. Len(m) : Insert(m, k, c)[j] = m[h]
                 \/ Insert(m, k, c)[j].key = k /\ Insert(m, k, c)[j].callsign = c
<1> DEFINE e == [key |-> k, callsign |-> c, born |-> Len(m)]
           t == Insert(m, k, c)
<1>0. Len(m) \in Nat  BY LenProperties
<1>1. e \in Entry  BY <1>0 DEF Entry
<1>2. PICK i \in 1 .. Len(m) + 1 : t = InsertAt(m, i, e) \/ t = m
  BY InsertPlace
<1>3. CASE t = m
  BY <1>3
<1>4. CASE t = InsertAt(m, i, e)
  <2> HIDE DEF e, t
  <2>0. t \in Seq(Entry) /\ Insertion(t, m, i, e)
    BY <1>1, <1>4, InsertAtProperties
  <2>1. /\ t \in Seq(Entry) /\ Len(t) = Len(m) + 1
        /\ \A j \in 1 .. Len(m) + 1 :
              t[j] = IF j < i THEN m[j] ELSE IF j = i THEN e ELSE m[j - 1]
    BY <2>0 DEF Insertion
  <2>2. ASSUME NEW j \in 1 .. Len(m) + 1
        PROVE  (\E h \in 1 .. Len(m) : t[j] = m[h]) \/ t[j] = e
    <3>1. CASE j < i  BY <3>1, <2>1, <1>0, j \in 1 .. Len(m)
    <3>2. CASE j = i  BY <3>2, <2>1
    <3>3. CASE j > i  BY <3>3, <2>1, <1>0, j - 1 \in 1 .. Len(m)
    <3> QED  BY <3>1, <3>2, <3>3, <1>0
  <2> QED  BY <2>1, <2>2 DEF e, t
<1> QED  BY <1>2, <1>3, <1>4

(***************************************************************************)
(* Where an entry comes from.                                              *)
(***************************************************************************)
TypeOK ==
    /\ peers \in Seq([ip : Addr, routes : Seq(Routes)])
    /\ shift32 \in {"all", "none"}
    /\ p \in 1 .. Len(peers) + 1
    /\ r \in Nat \ {0}
    /\ callsign_map \in Seq(Entry)

\* An entry is a route or the own address of the peer it names.
Origin ==
    \A i \in 1 .. Len(callsign_map) :
       LET e == callsign_map[i]
       IN  /\ e.callsign \in 1 .. Len(peers)
           /\ \/ e.key = HostRoute(peers[e.callsign].ip)
              \/ \E x \in Range(peers[e.callsign].routes) : e.key = Route(x.addr, x.len)

LEMMA InitTyped == Init => TypeOK /\ Origin
<1> SUFFICES ASSUME Init PROVE TypeOK /\ Origin  OBVIOUS
<1>1. \A S, n : n \in Nat => BoundedSeq(S, n) \subseteq Seq(S)
  <2> TAKE S, n
  <2> HAVE n \in Nat
  <2>1. \A m \in 0 .. n : [1 .. m -> S] \subseteq Seq(S)
    <3> TAKE m \in 0 .. n
    <3>1. m \in Nat  OBVIOUS
    <3> QED  BY <3>1, SeqDef
  <2> QED  BY <2>1 DEF BoundedSeq, SeqOf
<1>2. Peers \subseteq [ip : Addr, routes : Seq(Routes)]
  BY <1>1, PeersAssumption DEF Peers
<1>3. peers \in Seq(Peers)
  BY <1>1, PeersAssumption DEF Init
<1>4. peers \in Seq([ip : Addr, routes : Seq(Routes)])
  BY <1>2, <1>3, SeqMonotonic
<1>5. Len(peers) \in Nat  BY <1>4, LenProperties
<1>6. callsign_map \in Seq(Entry) /\ Len(callsign_map) = 0
  <2>1. callsign_map = <<>>  BY DEF Init
  <2> QED  BY <2>1, EmptySeq
<1> QED  BY <1>4, <1>5, <1>6 DEF Init, TypeOK, Origin

LEMMA RouteTyped ==
    ASSUME TypeOK, NEW c \in 1 .. Len(peers)
    PROVE  /\ peers[c].ip \in Addr
           /\ HostRoute(peers[c].ip) \in Key
           /\ peers[c].routes \in Seq(Routes) /\ Len(peers[c].routes) \in Nat
           /\ \A n \in 1 .. Len(peers[c].routes) : peers[c].routes[n] \in Range(peers[c].routes)
           /\ \A x \in Range(peers[c].routes) : x \in Routes /\ Route(x.addr, x.len) \in Key
           /\ \A x \in Range(peers[c].routes) : \E n \in 1 .. Len(peers[c].routes) : x = peers[c].routes[n]
<1>1. peers[c] \in [ip : Addr, routes : Seq(Routes)]
  BY ElementOfSeq DEF TypeOK
<1> DEFINE rs == peers[c].routes
<1>2. rs \in Seq(Routes) /\ peers[c].ip \in Addr  BY <1>1
<1> HIDE DEF rs
<1>3. Len(rs) \in Nat /\ DOMAIN rs = 1 .. Len(rs) /\ \A n \in 1 .. Len(rs) : rs[n] \in Routes
  BY <1>2, LenProperties, ElementOfSeq
<1>4. Range(rs) = {rs[n] : n \in 1 .. Len(rs)}  BY <1>3 DEF Range
<1>5. \A x \in Routes : Route(x.addr, x.len) \in Key
  BY MaskedBits, LengthsAssumption DEF Routes, Route, Key
<1>6. HostRoute(peers[c].ip) \in Key
  BY <1>2, AddrProperties DEF HostRoute, Key
<1> QED  BY <1>2, <1>3, <1>4, <1>5, <1>6 DEF rs

LEMMA NextTyped == TypeOK /\ Origin /\ [Next]_vars => (TypeOK /\ Origin)'
<1> SUFFICES ASSUME TypeOK, Origin, [Next]_vars PROVE (TypeOK /\ Origin)'  OBVIOUS
<1>0. Len(peers) \in Nat  BY LenProperties DEF TypeOK
<1>1. ASSUME peers' = peers, shift32' = shift32, p \in 1 .. Len(peers),
             p' \in 1 .. Len(peers) + 1, r' \in Nat \ {0},
             NEW k \in Key, callsign_map' = Insert(callsign_map, k, p),
             \/ k = HostRoute(peers[p].ip)
             \/ \E x \in Range(peers[p].routes) : k = Route(x.addr, x.len)
      PROVE  (TypeOK /\ Origin)'
  <2>1. p \in Nat \ {0} /\ callsign_map \in Seq(Entry)  BY <1>1 DEF TypeOK
  <2>2. /\ callsign_map' \in Seq(Entry)
        /\ \A j \in 1 .. Len(callsign_map') :
                 \/ \E h \in 1 .. Len(callsign_map) : callsign_map'[j] = callsign_map[h]
                 \/ callsign_map'[j].key = k /\ callsign_map'[j].callsign = p
    BY <1>1, <2>1, InsertEntries
  <2>3. TypeOK'  BY <1>1, <2>2 DEF TypeOK
  <2>4. \A a, len : Masked(a, len)' = Masked(a, len)  BY <1>1 DEF Masked
  <2>5. ASSUME NEW j \in 1 .. Len(callsign_map')
        PROVE  LET e == callsign_map'[j]
               IN  /\ e.callsign \in 1 .. Len(peers)
                   /\ \/ e.key = HostRoute(peers[e.callsign].ip)
                      \/ \E x \in Range(peers[e.callsign].routes) :
                            e.key = [net |-> Masked(x.addr, x.len), len |-> x.len]
    <3>1. CASE \E h \in 1 .. Len(callsign_map) : callsign_map'[j] = callsign_map[h]
      BY <3>1 DEF Origin, Route
    <3>2. CASE callsign_map'[j].key = k /\ callsign_map'[j].callsign = p
      BY <3>2, <1>1 DEF Route
    <3> QED  BY <2>2, <3>1, <3>2
  <2>6. Origin'
    BY <2>5, <2>4, <1>1 DEF Origin, Route, HostRoute, AddrBits
  <2> QED  BY <2>3, <2>6
<1>2. ASSUME callsign_map' = callsign_map, peers' = peers, shift32' = shift32,
             p' \in 1 .. Len(peers) + 1, r' \in Nat \ {0}
      PROVE  (TypeOK /\ Origin)'
  BY <1>2 DEF TypeOK, Origin, Route, Masked, HostRoute, AddrBits
<1>3. CASE InsertRoute
  <2> DEFINE x == peers[p].routes[r]
  <2>1. p \in 1 .. Len(peers) /\ r \in 1 .. Len(peers[p].routes)
    <3>1. p \in 1 .. Len(peers)  BY <1>3, <1>0 DEF InsertRoute, TypeOK
    <3> QED BY <3>1, <1>3, RouteTyped DEF InsertRoute, TypeOK
  <2>2. x \in Range(peers[p].routes) /\ Route(x.addr, x.len) \in Key  BY <2>1, RouteTyped
  <2>3. callsign_map' = Insert(callsign_map, Route(x.addr, x.len), p)  BY <1>3 DEF InsertRoute
  <2>4. /\ peers' = peers /\ shift32' = shift32 /\ p' \in 1 .. Len(peers) + 1
        /\ r' \in Nat \ {0}
    BY <1>3 DEF InsertRoute, TypeOK
  <2> HIDE DEF x
  <2> QED  BY <1>1, <2>1, <2>2, <2>3, <2>4
<1>4. CASE InsertOwn
  <2> DEFINE k == HostRoute(peers[p].ip)
  <2>1. p \in 1 .. Len(peers)  BY <1>4, <1>0 DEF InsertOwn, TypeOK
  <2>2. /\ peers' = peers /\ shift32' = shift32 /\ p' \in 1 .. Len(peers) + 1
        /\ r' \in Nat \ {0}
    BY <1>4, <2>1, <1>0 DEF InsertOwn
  <2>3. callsign_map' = Insert(callsign_map, k, p) \/ callsign_map' = callsign_map
    BY <1>4 DEF InsertOwn
  <2>4. k \in Key  BY <2>1, RouteTyped
  <2> HIDE DEF Insert
  <2>5. CASE callsign_map' = Insert(callsign_map, k, p)
    <3>1. k = HostRoute(peers[p].ip)  OBVIOUS
    <3> HIDE DEF k
    <3> QED  BY <3>1, <1>1, <2>1, <2>2, <2>4, <2>5
  <2>6. CASE callsign_map' = callsign_map
    BY <2>2, <2>6, <1>2
  <2> QED  BY <2>3, <2>5, <2>6
<1>5. CASE UNCHANGED vars
  BY <1>5, <1>2 DEF vars, TypeOK
<1> QED  BY <1>3, <1>4, <1>5 DEF Next, Serve

\* Find() returns an entry neither way less than the address, which then has the
\* entry's bits under its mask.
LEMMA OriginConfigured == TypeOK /\ Origin => OnlyToConfigured
<1> SUFFICES ASSUME TypeOK, Origin, NEW a \in Addr, Callsign(a) > 0
             PROVE  Covers(Callsign(a), a) \/ peers[Callsign(a)].ip = a
  BY DEF OnlyToConfigured
<1> DEFINE m == callsign_map
           k == HostRoute(a)
<1>0. m \in Seq(Entry) /\ Len(m) \in Nat  BY LenProperties DEF TypeOK
<1>1. PICK i \in 1 .. Len(m) + 1 :
               /\ Find(m, k) = IF i <= Len(m) /\ ~Less(k, m[i].key) THEN m[i].callsign ELSE 0
               /\ i <= Len(m) => ~Less(m[i].key, k)
  BY <1>0, FindPlace
<1>2. /\ i \in 1 .. Len(m) /\ ~Less(k, m[i].key) /\ ~Less(m[i].key, k)
      /\ Callsign(a) = m[i].callsign
  BY <1>0, <1>1 DEF Callsign
<1> DEFINE c == m[i].callsign
           n == m[i].key.net
           l == m[i].key.len
<1>3. m[i] \in Entry /\ m[i].key \in Key
  <2>1. m[i] \in Entry  BY <1>0, <1>2, ElementOfSeq
  <2> QED  BY <2>1 DEF Entry
<1>4. n \in Addr /\ l \in 0 .. AddrBits  BY <1>3 DEF Key
<1>5. Masked(n, l) = Masked(a, l)
  <2>1. k.len = AddrBits /\ k.net = a  BY DEF HostRoute
  <2>2. AddrBits \in Nat  BY AddrProperties
  <2>3. ~(s_addr(Masked(n, l)) < s_addr(Masked(a, l))) /\ ~(s_addr(Masked(a, l)) < s_addr(Masked(n, l)))
    <3>1. CASE l = AddrBits  BY <3>1, <1>2, <2>1, <2>2 DEF Less
    <3>2. CASE l < AddrBits  BY <3>2, <1>2, <1>4, <2>1, <2>2 DEF Less
    <3> QED  BY <3>1, <3>2, <1>4, <2>2
  <2>4. Masked(n, l) \in Addr /\ Masked(a, l) \in Addr  BY <1>4, MaskedBits
  <2>5. s_addr(Masked(n, l)) = s_addr(Masked(a, l))  BY <2>3, <2>4, s_addrInt
  <2> QED  BY <2>4, <2>5, s_addrInjective
<1>6. c \in 1 .. Len(peers)  BY <1>2 DEF Origin
<1>7. CASE m[i].key = HostRoute(peers[c].ip)
  <2>1. l = AddrBits /\ n = peers[c].ip  BY <1>7 DEF HostRoute
  <2>2. Masked(n, AddrBits) = n /\ Masked(a, AddrBits) = a  BY <1>4, MaskedBits
  <2> QED  BY <2>1, <2>2, <1>5, <1>2
<1>8. ASSUME NEW x \in Range(peers[c].routes), m[i].key = Route(x.addr, x.len)
      PROVE  Covers(c, a)
  <2>1. x \in Routes  BY <1>6, RouteTyped
  <2>2. x.addr \in Addr /\ l = x.len /\ n = Masked(x.addr, l)
    BY <2>1, <1>8 DEF Routes, Route
  <2>3. Bits(x.addr, l) = Bits(a, l)
    <3>1. CASE l = 0  BY <3>1, <2>2, <1>4, BitsProperties
    <3>2. CASE l > 0
      <4>1. Masked(n, l) = Masked(x.addr, l)  BY <2>2, <1>4, MaskedBits
      <4> QED  BY <3>2, <4>1, <1>5, <1>4, <2>2, MaskedBits
    <3> QED  BY <3>1, <3>2, <1>4
  <2> QED  BY <2>2, <2>3 DEF Covers, InRoute
<1>9. m[i].key = HostRoute(peers[c].ip) \/ \E x \in Range(peers[c].routes) : m[i].key = Route(x.addr, x.len)
  BY <1>2 DEF Origin
<1> QED  BY <1>2, <1>7, <1>8, <1>9

(***************************************************************************)
(* Routes of one length L: operator< compares all of its bits, so the map  *)
(* is sorted, and has an entry for each route so far, of the first peer    *)
(* with that route.                                                        *)
(***************************************************************************)
AllOf(L) ==
    /\ \A c \in 1 .. Len(peers) : \A x \in Range(peers[c].routes) : x.len = L
    /\ \A c \in 1 .. Len(peers) : Covers(c, peers[c].ip)

Entries      == 1 .. Len(callsign_map)
Net(i)       == callsign_map[i].key.net
Processed(c, n) == c < p \/ (c = p /\ n < r)

Ordered(L) ==
    /\ \A i \in Entries : /\ callsign_map[i].key.len = L
                          /\ callsign_map[i].callsign <= p
                          /\ \E x \in Range(peers[callsign_map[i].callsign].routes) :
                                Net(i) = Bits(x.addr, L)
    /\ \A i, j \in Entries : i < j => s_addr(Net(i)) < s_addr(Net(j))
    /\ \A c \in 1 .. Len(peers) : \A n \in 1 .. Len(peers[c].routes) :
          Processed(c, n) =>
              \E i \in Entries : /\ Net(i) = Bits(peers[c].routes[n].addr, L)
                                 /\ callsign_map[i].callsign <= c

OneLengthInv == \A L \in Lengths \ {0} : AllOf(L) => Ordered(L)

LEMMA LessOfLength ==
    ASSUME NEW L \in 1 .. AddrBits, NEW x \in Key, NEW y \in Key,
           (x.len = L /\ y.len \in {L, AddrBits}) \/ (y.len = L /\ x.len \in {L, AddrBits})
    PROVE  /\ Less(x, y) <=> s_addr(Bits(x.net, L)) < s_addr(Bits(y.net, L))
           /\ Bits(x.net, L) \in Addr /\ Bits(y.net, L) \in Addr
<1>1. x.net \in Addr /\ y.net \in Addr /\ x.len \in 0 .. AddrBits /\ y.len \in 0 .. AddrBits
  BY DEF Key
<1>2. L \in 0 .. AddrBits /\ L > 0  BY AddrProperties
<1>3. Masked(x.net, L) = Bits(x.net, L) /\ Masked(y.net, L) = Bits(y.net, L)
  BY <1>1, <1>2, MaskedBits
<1>4. (IF x.len < y.len THEN x.len ELSE y.len) = L  BY AddrProperties
<1>5. Less(x, y) <=> s_addr(Masked(x.net, L)) < s_addr(Masked(y.net, L))
  BY <1>4 DEF Less
<1> QED  BY <1>1, <1>2, <1>3, <1>5, BitsProperties

LEMMA EntryOfLength ==
    ASSUME TypeOK, Origin, NEW L \in 1 .. AddrBits, Ordered(L), NEW i \in Entries
    PROVE  /\ callsign_map[i] \in Entry /\ callsign_map[i].key \in Key
           /\ callsign_map[i].key.len = L
           /\ Net(i) \in Addr /\ Bits(Net(i), L) = Net(i)
           /\ callsign_map[i].callsign \in 1 .. Len(peers)
<1>1. callsign_map[i] \in Entry  BY ElementOfSeq DEF TypeOK, Entries
<1>2. callsign_map[i].key \in Key  BY <1>1 DEF Entry
<1>3. Net(i) \in Addr  BY <1>2 DEF Key, Net
<1>4. callsign_map[i].callsign \in 1 .. Len(peers)  BY DEF Origin, Entries
<1>5. PICK x \in Range(peers[callsign_map[i].callsign].routes) : Net(i) = Bits(x.addr, L)
  BY DEF Ordered
<1>6. x.addr \in Addr  BY <1>4, <1>5, RouteTyped DEF Routes
<1>7. Bits(Net(i), L) = Net(i)
  BY <1>5, <1>6, AddrProperties, BitsProperties, L \in 0 .. AddrBits
<1> QED  BY <1>1, <1>2, <1>3, <1>4, <1>7 DEF Ordered

\* The search finds the only entry with the address's bits, when there is one.
LEMMA FindOrdered ==
    ASSUME TypeOK, Origin, NEW L \in 1 .. AddrBits, Ordered(L), NEW a \in Addr
    PROVE  /\ \A i \in Entries : Net(i) = Bits(a, L) => Callsign(a) = callsign_map[i].callsign
           /\ Callsign(a) # 0 => \E i \in Entries : Net(i) = Bits(a, L)
<1> DEFINE m == callsign_map
           k == HostRoute(a)
           v == s_addr(Bits(a, L))
<1>0. m \in Seq(Entry) /\ Len(m) \in Nat /\ AddrBits \in Nat
  BY LenProperties, AddrProperties DEF TypeOK
<1>1. PICK i \in 1 .. Len(m) + 1 :
               /\ Find(m, k) = IF i <= Len(m) /\ ~Less(k, m[i].key) THEN m[i].callsign ELSE 0
               /\ i <= Len(m) => ~Less(m[i].key, k)
               /\ i > 1 => Less(m[i - 1].key, k)
  BY <1>0, FindPlace
<1>2. k \in Key /\ k.net = a /\ k.len = AddrBits
  BY <1>0 DEF HostRoute, Key
<1>3. ASSUME NEW j \in Entries
      PROVE  /\ Less(m[j].key, k) <=> s_addr(Net(j)) < v
             /\ Less(k, m[j].key) <=> v < s_addr(Net(j))
             /\ s_addr(Net(j)) \in Nat /\ Net(j) \in Addr
  <2>1. m[j].key \in Key /\ m[j].key.len = L /\ Bits(Net(j), L) = Net(j) /\ Net(j) \in Addr
    BY EntryOfLength
  <2>2. m[j].key.net = Net(j)  BY DEF Net
  <2> HIDE DEF k, m
  <2> QED  BY <2>1, <2>2, <1>2, LessOfLength, s_addrInt
<1>4. Bits(a, L) \in Addr /\ v \in Nat
  BY <1>0, BitsProperties, s_addrInt, L \in 0 .. AddrBits
<1>5. Callsign(a) = IF i <= Len(m) /\ ~Less(k, m[i].key) THEN m[i].callsign ELSE 0
  BY <1>1 DEF Callsign
<1>6. ASSUME NEW j \in Entries, Net(j) = Bits(a, L)  PROVE i = j
  <2>1. s_addr(Net(j)) = v  BY <1>6
  <2>2. CASE i < j
    <3>1. i \in Entries  BY <2>2, <1>0 DEF Entries
    <3>2. s_addr(Net(i)) < v  BY <3>1, <2>1, <2>2 DEF Ordered
    <3>3. ~Less(m[i].key, k)  BY <1>1, <3>1, <1>0 DEF Entries
    <3> QED  BY <3>1, <3>2, <3>3, <1>3
  <2>3. CASE i > j
    <3>1. i - 1 \in Entries /\ i > 1 /\ i - 1 >= j /\ j \in Int  BY <2>3, <1>0 DEF Entries
    <3>2. s_addr(Net(i - 1)) < v  BY <3>1, <1>1, <1>3
    <3>3. i - 1 = j \/ i - 1 > j  BY <3>1
    <3>4. s_addr(Net(i - 1)) >= v
      <4>1. CASE i - 1 = j  BY <4>1, <2>1, <1>4
      <4>2. CASE i - 1 > j
        <5>1. s_addr(Net(j)) < s_addr(Net(i - 1))  BY <4>2, <3>1 DEF Ordered
        <5> QED  BY <5>1, <2>1, <3>1, <1>3, <1>4
      <4> QED  BY <4>1, <4>2, <3>3
    <3> QED  BY <3>1, <3>2, <3>4, <1>3, <1>4
  <2> QED  BY <2>2, <2>3, <1>0 DEF Entries
<1>7. ASSUME NEW j \in Entries, Net(j) = Bits(a, L)  PROVE Callsign(a) = m[j].callsign
  <2>1. i = j  BY <1>6, <1>7
  <2>2. ~Less(k, m[j].key)  BY <1>3, <1>4, <1>7
  <2>3. i <= Len(m)  BY <2>1, <1>0 DEF Entries
  <2> QED  BY <1>5, <2>1, <2>2, <2>3
<1>8. ASSUME Callsign(a) # 0  PROVE \E j \in Entries : Net(j) = Bits(a, L)
  <2>1. i \in Entries /\ ~Less(k, m[i].key) /\ ~Less(m[i].key, k)
    BY <1>8, <1>5, <1>1, <1>0 DEF Entries
  <2>2. s_addr(Net(i)) = v  BY <2>1, <1>3, <1>4
  <2>3. Net(i) = Bits(a, L)  BY <2>1, <2>2, <1>3, <1>4, s_addrInjective
  <2> QED  BY <2>1, <2>3
<1> QED  BY <1>7, <1>8

LEMMA LengthOfAll ==
    TypeOK /\ OneLength => \E L \in Lengths \ {0} : AllOf(L)
<1> SUFFICES ASSUME TypeOK, OneLength PROVE \E L \in Lengths \ {0} : AllOf(L)  OBVIOUS
<1>1. DOMAIN peers = 1 .. Len(peers)  BY LenProperties DEF TypeOK
<1> QED  BY <1>1 DEF OneLength, AllOf

LEMMA LengthsPositive == \A L \in Lengths \ {0} : L \in 1 .. AddrBits
  BY LengthsAssumption, AddrProperties

LEMMA OrderedAnswers ==
    ASSUME TypeOK, Origin, NEW L \in 1 .. AddrBits, AllOf(L), Ordered(L), Built, NEW a \in Addr
    PROVE  IF Covering(a) = {} THEN Callsign(a) = 0
           ELSE /\ Callsign(a) \in Covering(a)
                /\ \A c \in Covering(a) : Callsign(a) <= c
<1>0. Len(peers) \in Nat /\ DOMAIN peers = 1 .. Len(peers)  BY LenProperties DEF TypeOK
<1>1. ASSUME NEW i \in Entries, Net(i) = Bits(a, L)
      PROVE  callsign_map[i].callsign \in Covering(a)
  <2> DEFINE c == callsign_map[i].callsign
  <2>1. c \in 1 .. Len(peers)  BY EntryOfLength
  <2>2. PICK x \in Range(peers[c].routes) : Net(i) = Bits(x.addr, L)  BY DEF Ordered
  <2>3. x.len = L  BY <2>1, <2>2 DEF AllOf
  <2> QED  BY <1>1, <2>1, <2>2, <2>3, <1>0 DEF Covering, Covers, InRoute
<1>2. ASSUME NEW c \in Covering(a)
      PROVE  \E i \in Entries : Net(i) = Bits(a, L) /\ callsign_map[i].callsign <= c
  <2>1. c \in 1 .. Len(peers) /\ Covers(c, a)  BY <1>0 DEF Covering
  <2>2. PICK x \in Range(peers[c].routes) : InRoute(x, a)  BY <2>1 DEF Covers
  <2>3. PICK n \in 1 .. Len(peers[c].routes) : x = peers[c].routes[n]  BY <2>1, <2>2, RouteTyped
  <2>4. Bits(x.addr, L) = Bits(a, L)  BY <2>1, <2>2 DEF AllOf, InRoute
  <2>5. c < p  BY <2>1, <1>0 DEF Built, TypeOK
  <2> QED  BY <2>1, <2>3, <2>4, <2>5 DEF Ordered, Processed
<1>3. CASE Covering(a) = {}
  BY <1>3, <1>1, FindOrdered
<1>4. CASE Covering(a) # {}
  <2>1. PICK i \in Entries : Net(i) = Bits(a, L)  BY <1>4, <1>2
  <2>2. Callsign(a) \in Covering(a)  BY <2>1, <1>1, FindOrdered
  <2>3. ASSUME NEW c \in Covering(a)  PROVE Callsign(a) <= c
    BY <1>2, FindOrdered
  <2> QED  BY <1>4, <2>2, <2>3
<1> QED  BY <1>3, <1>4

\* insert() keeps the order, drops nothing, and leaves an entry with the key.
LEMMA InsertOrdered ==
    ASSUME TypeOK, Origin, NEW L \in 1 .. AddrBits, Ordered(L), NEW k \in Key, k.len = L,
           Bits(k.net, L) = k.net, p \in 1 .. Len(peers)
    PROVE  LET t == Insert(callsign_map, k, p)
           IN  /\ \A j, h \in 1 .. Len(t) : j < h => s_addr(t[j].key.net) < s_addr(t[h].key.net)
               /\ \A h \in Entries : \E j \in 1 .. Len(t) : t[j] = callsign_map[h]
               /\ \E j \in 1 .. Len(t) : t[j].key.net = k.net /\ t[j].callsign <= p
<1> DEFINE m == callsign_map
           v == s_addr(k.net)
           e == [key |-> k, callsign |-> p, born |-> Len(m)]
           t == Insert(m, k, p)
           s(j) == s_addr(Net(j))
<1>0. m \in Seq(Entry) /\ Len(m) \in Nat /\ p \in Nat \ {0} /\ k.net \in Addr /\ v \in Nat
  BY LenProperties, s_addrInt DEF TypeOK, Key
<1>1. e \in Entry  BY <1>0 DEF Entry
<1>2. PICK i \in 1 .. Len(m) + 1 :
               /\ i <= Len(m) => Less(k, m[i].key)
               /\ i > 1 => ~Less(k, m[i - 1].key)
               /\ \/ /\ i = 1 \/ Less(m[i - 1].key, k)
                     /\ t = InsertAt(m, i, e)
                  \/ /\ i > 1 /\ ~Less(m[i - 1].key, k)
                     /\ t = m
  BY <1>0, InsertPlace
<1>3. ASSUME NEW j \in Entries
      PROVE  /\ Less(m[j].key, k) <=> s(j) < v
             /\ Less(k, m[j].key) <=> v < s(j)
             /\ s(j) \in Nat /\ Net(j) \in Addr /\ m[j].key.net = Net(j)
             /\ m[j].callsign <= p
  <2>1. m[j].key \in Key /\ m[j].key.len = L /\ Bits(Net(j), L) = Net(j) /\ Net(j) \in Addr
    BY EntryOfLength
  <2>2. m[j].key.net = Net(j)  BY DEF Net
  <2>3. m[j].callsign <= p  BY DEF Ordered
  <2> HIDE DEF m
  <2> QED  BY <2>1, <2>2, <2>3, LessOfLength, s_addrInt
<1>4. \A j, h \in Entries : j < h => s(j) < s(h)  BY DEF Ordered
<1>5. Entries = 1 .. Len(m)  BY DEF Entries
<1> HIDE DEF e, t, v, m, s
<1>6. CASE t = m
  <2>1. \/ i - 1 \in Entries /\ i > 1 /\ ~Less(m[i - 1].key, k) /\ ~Less(k, m[i - 1].key)
        \/ t = InsertAt(m, i, e)
    BY <1>2, <1>5, <1>0
  <2>2. ASSUME i - 1 \in Entries, ~Less(m[i - 1].key, k), ~Less(k, m[i - 1].key)
        PROVE  Net(i - 1) = k.net /\ m[i - 1].callsign <= p
    <3>1. s(i - 1) = v  BY <2>2, <1>3, <1>0
    <3> QED  BY <3>1, <2>2, <1>3, <1>0, s_addrInjective DEF s, v
  <2>3. t # InsertAt(m, i, e)
    <3>1. Len(InsertAt(m, i, e)) = Len(m) + 1  BY <1>0, <1>1, InsertAtProperties DEF Insertion
    <3> QED  BY <3>1, <1>6, <1>0
  <2>4. i - 1 \in Entries /\ m[i - 1].key.net = k.net /\ m[i - 1].callsign <= p
    BY <2>1, <2>2, <2>3, <1>3
  <2>5. \A j, h \in 1 .. Len(t) : j < h => s_addr(t[j].key.net) < s_addr(t[h].key.net)
    BY <1>3, <1>4, <1>5, <1>6 DEF s
  <2> QED  BY <2>4, <2>5, <1>5, <1>6 DEF t, m
<1>7. CASE t = InsertAt(m, i, e)
  <2>0. t \in Seq(Entry) /\ Insertion(t, m, i, e)
    BY <1>0, <1>1, <1>7, InsertAtProperties
  <2>1. /\ t \in Seq(Entry) /\ Len(t) = Len(m) + 1
        /\ \A j \in 1 .. Len(m) + 1 :
              t[j] = IF j < i THEN m[j] ELSE IF j = i THEN e ELSE m[j - 1]
    BY <2>0 DEF Insertion
  <2>2. i = 1 \/ Less(m[i - 1].key, k)
    <3>1. t # m  BY <2>1, <1>0
    <3> QED  BY <3>1, <1>2
  <2>3. ASSUME NEW j \in Entries, j < i  PROVE s(j) < v
    <3>1. i - 1 \in Entries /\ j <= i - 1 /\ j \in Int  BY <2>3, <1>5, <1>0
    <3>2. s(i - 1) < v  BY <3>1, <2>2, <2>3, <1>3, <1>5
    <3>3. CASE j = i - 1  BY <3>2, <3>3
    <3>4. CASE j < i - 1
      <4>1. s(j) < s(i - 1)  BY <3>4, <3>1, <1>4
      <4> QED  BY <4>1, <3>1, <3>2, <1>3, <1>0
    <3> QED  BY <3>1, <3>3, <3>4
  <2>4. ASSUME NEW j \in Entries, j >= i  PROVE v < s(j)
    <3>1. i \in Entries /\ i \in Int /\ j \in Int  BY <2>4, <1>5, <1>0
    <3>2. v < s(i)  BY <3>1, <1>2, <1>3, <1>5
    <3>3. CASE j = i  BY <3>2, <3>3
    <3>4. CASE j > i
      <4>1. s(i) < s(j)  BY <3>4, <3>1, <1>4
      <4> QED  BY <4>1, <3>1, <3>2, <1>3, <1>0
    <3> QED  BY <3>1, <3>3, <3>4, <2>4
  <2>5. \A j \in 1 .. Len(m) + 1 :
           /\ j < i => j \in Entries /\ t[j] = m[j] /\ s_addr(t[j].key.net) = s(j)
           /\ j = i => t[j] = e /\ s_addr(t[j].key.net) = v
           /\ j > i => j - 1 \in Entries /\ t[j] = m[j - 1] /\ s_addr(t[j].key.net) = s(j - 1)
    <3> TAKE j \in 1 .. Len(m) + 1
    <3>1. CASE j < i
      <4>1. j \in Entries  BY <3>1, <1>5, <1>0
      <4> QED  BY <3>1, <4>1, <2>1, <1>3, <1>0 DEF s
    <3>2. CASE j = i
      <4>1. t[j] = e  BY <3>2, <2>1
      <4>2. e.key = k  BY DEF e
      <4> QED  BY <3>2, <4>1, <4>2, <1>0 DEF v
    <3>3. CASE j > i
      <4>1. j - 1 \in Entries  BY <3>3, <1>5, <1>0
      <4> QED  BY <3>3, <4>1, <2>1, <1>3, <1>0 DEF s
    <3> QED  BY <3>1, <3>2, <3>3, <1>0
  <2>6. ASSUME NEW j \in 1 .. Len(t), NEW h \in 1 .. Len(t), j < h
        PROVE  s_addr(t[j].key.net) < s_addr(t[h].key.net)
    <3>0. j \in 1 .. Len(m) + 1 /\ h \in 1 .. Len(m) + 1  BY <2>1
    <3>1. CASE h < i  BY <3>0, <3>1, <2>5, <2>6, <1>4, <1>0
    <3>2. CASE h = i  BY <3>0, <3>2, <2>5, <2>6, <2>3, <1>0
    <3>3. CASE h > i
      <4>1. h - 1 \in Entries /\ h - 1 >= i /\ s_addr(t[h].key.net) = s(h - 1)
        BY <3>0, <3>3, <2>5, <1>0
      <4>2. v < s(h - 1)  BY <4>1, <2>4
      <4>3. CASE j = i  BY <3>0, <4>1, <4>2, <4>3, <2>5
      <4>4. CASE j < i
        <5>1. j \in Entries /\ s_addr(t[j].key.net) = s(j) /\ s(j) < v
          BY <3>0, <4>4, <2>5, <2>3
        <5> QED  BY <5>1, <4>1, <4>2, <1>3, <1>0
      <4>5. CASE j > i
        <5>1. j - 1 \in Entries /\ s_addr(t[j].key.net) = s(j - 1) /\ j - 1 < h - 1
          BY <3>0, <4>5, <2>5, <2>6, <1>0
        <5> QED  BY <5>1, <4>1, <1>4
      <4> QED  BY <3>0, <4>3, <4>4, <4>5, <1>0
    <3> QED  BY <3>0, <3>1, <3>2, <3>3, <1>0
  <2>7. ASSUME NEW h \in Entries  PROVE \E j \in 1 .. Len(t) : t[j] = m[h]
    <3>1. CASE h < i  BY <3>1, <2>1, <1>0, <1>5, h \in 1 .. Len(m) + 1
    <3>2. CASE h >= i
      <4>1. h + 1 \in 1 .. Len(m) + 1 /\ h + 1 > i /\ (h + 1) - 1 = h  BY <3>2, <1>0, <1>5
      <4> QED  BY <4>1, <2>1, <2>5
    <3> QED  BY <3>1, <3>2, <1>0, <1>5
  <2>8. t[i].key.net = k.net /\ t[i].callsign <= p /\ i \in 1 .. Len(t)
    <3>1. t[i] = e  BY <2>1
    <3>2. e.key = k /\ e.callsign = p  BY DEF e
    <3> QED  BY <3>1, <3>2, <2>1, <1>0
  <2> QED  BY <2>6, <2>7, <2>8 DEF t, m
<1> QED  BY <1>2, <1>6, <1>7

LEMMA NextOrdered ==
    TypeOK /\ Origin /\ OneLengthInv /\ [Next]_vars => OneLengthInv'
<1> SUFFICES ASSUME TypeOK, Origin, OneLengthInv, [Next]_vars,
                    NEW L \in Lengths \ {0}, AllOf(L)'
             PROVE  Ordered(L)'
  BY DEF OneLengthInv
<1>0. Len(peers) \in Nat /\ Len(callsign_map) \in Nat /\ callsign_map \in Seq(Entry)
      /\ L \in 1 .. AddrBits /\ L \in 0 .. AddrBits
  BY LenProperties, LengthsPositive, AddrProperties DEF TypeOK
<1>1. peers' = peers  BY DEF Next, InsertRoute, InsertOwn, Serve, vars
<1>2. AllOf(L)  BY <1>1 DEF AllOf, Covers, InRoute, Bits, AddrBits
<1>3. Ordered(L)  BY <1>2 DEF OneLengthInv
<1>4. CASE InsertRoute
  <2> DEFINE x == peers[p].routes[r]
             k == Route(x.addr, x.len)
             t == Insert(callsign_map, k, p)
  <2>1. p \in 1 .. Len(peers) /\ r \in 1 .. Len(peers[p].routes)
    <3>1. p \in 1 .. Len(peers)  BY <1>4, <1>0 DEF InsertRoute, TypeOK
    <3> QED BY <3>1, <1>4, RouteTyped DEF InsertRoute, TypeOK
  <2>2. x \in Range(peers[p].routes) /\ k \in Key /\ x.addr \in Addr
    BY <2>1, RouteTyped DEF Routes
  <2>3. k.len = L /\ k.net = Bits(x.addr, L)
    <3>1. x.len = L  BY <2>1, <2>2, <1>2 DEF AllOf
    <3>2. Masked(x.addr, L) = Bits(x.addr, L)  BY <2>2, <1>0, MaskedBits
    <3> QED  BY <3>1, <3>2 DEF Route
  <2>4. Bits(k.net, L) = k.net  BY <2>2, <2>3, <1>0, BitsProperties
  <2>5. callsign_map' = t /\ p' = p /\ r' = r + 1  BY <1>4 DEF InsertRoute
  <2>6. p \in Nat \ {0}  BY <1>0, <2>1
  <2> HIDE DEF k, x
  <2>7. /\ \A j, h \in 1 .. Len(t) : j < h => s_addr(t[j].key.net) < s_addr(t[h].key.net)
        /\ \A h \in Entries : \E j \in 1 .. Len(t) : t[j] = callsign_map[h]
        /\ \E j \in 1 .. Len(t) : t[j].key.net = k.net /\ t[j].callsign <= p
    BY <1>0, <1>3, <2>1, <2>2, <2>3, <2>4, InsertOrdered
  <2>8. \A j \in 1 .. Len(t) : \/ \E h \in Entries : t[j] = callsign_map[h]
                               \/ t[j].key = k /\ t[j].callsign = p
    BY <1>0, <2>2, <2>6, InsertEntries DEF Entries
  <2> HIDE DEF t
  <2>9. ASSUME NEW j \in 1 .. Len(t)
        PROVE  /\ t[j].key.len = L /\ t[j].callsign <= p
               /\ \E y \in Range(peers[t[j].callsign].routes) : t[j].key.net = Bits(y.addr, L)
    <3>1. ASSUME NEW h \in Entries, t[j] = callsign_map[h]
          PROVE  /\ t[j].key.len = L /\ t[j].callsign <= p
                 /\ \E y \in Range(peers[t[j].callsign].routes) : t[j].key.net = Bits(y.addr, L)
      BY <3>1, <1>3 DEF Ordered, Net
    <3>2. CASE t[j].key = k /\ t[j].callsign = p
      BY <3>2, <2>2, <2>3, <2>6
    <3> QED  BY <2>8, <3>1, <3>2
  <2>10. ASSUME NEW c \in 1 .. Len(peers), NEW n \in 1 .. Len(peers[c].routes),
                c < p \/ (c = p /\ n < r + 1)
         PROVE  \E j \in 1 .. Len(t) : /\ t[j].key.net = Bits(peers[c].routes[n].addr, L)
                                       /\ t[j].callsign <= c
    <3>1. CASE c < p \/ (c = p /\ n < r)
      <4>1. PICK h \in Entries : /\ Net(h) = Bits(peers[c].routes[n].addr, L)
                                 /\ callsign_map[h].callsign <= c
        BY <3>1, <1>3 DEF Ordered, Processed
      <4> QED  BY <4>1, <2>7 DEF Net
    <3>2. CASE c = p /\ n = r
      BY <3>2, <2>3, <2>7 DEF x
    <3> QED  BY <3>1, <3>2, <2>10, <2>1
  <2> QED  BY <2>5, <2>7, <2>9, <2>10, <1>1 DEF Ordered, Entries, Net, Processed, Bits, AddrBits, s_addr
<1>5. CASE InsertOwn
  <2>1. p \in 1 .. Len(peers) /\ r > Len(peers[p].routes)
    BY <1>5, <1>0 DEF InsertOwn, TypeOK
  <2> DEFINE a == peers[p].ip
  <2>2. a \in Addr  BY <2>1, RouteTyped
  <2>3. Find(callsign_map, HostRoute(a)) # 0
    <3>1. PICK x \in Range(peers[p].routes) : InRoute(x, a)
      BY <2>1, <1>2 DEF AllOf, Covers
    <3>2. PICK n \in 1 .. Len(peers[p].routes) : x = peers[p].routes[n]
      BY <2>1, RouteTyped
    <3>3. Bits(x.addr, L) = Bits(a, L)  BY <3>1, <2>1, <1>2 DEF AllOf, InRoute
    <3>4. n < r  BY <2>1, RouteTyped DEF TypeOK
    <3>5. PICK i \in Entries : Net(i) = Bits(a, L)
      BY <3>2, <3>3, <3>4, <2>1, <1>3 DEF Ordered, Processed
    <3>6. Callsign(a) = callsign_map[i].callsign
      BY <1>0, <1>3, <2>2, <3>5, FindOrdered
    <3>7. callsign_map[i].callsign \in 1 .. Len(peers)
      BY <1>0, <1>3, EntryOfLength
    <3> QED  BY <3>6, <3>7 DEF Callsign
  <2>4. callsign_map' = callsign_map /\ p' = p + 1 /\ r' = 1
    BY <1>5, <2>3 DEF InsertOwn
  <2>5. ASSUME NEW c \in 1 .. Len(peers), NEW n \in 1 .. Len(peers[c].routes),
               c < p + 1 \/ (c = p + 1 /\ n < 1)
        PROVE  Processed(c, n)
    <3>1. c < p \/ c = p  BY <2>5, <2>1
    <3>2. c = p => n < r  BY <2>1, RouteTyped DEF TypeOK
    <3> QED  BY <3>1, <3>2 DEF Processed
  <2>6. ASSUME NEW i \in Entries  PROVE callsign_map[i].callsign <= p + 1
    <3>1. callsign_map[i].callsign \in 1 .. Len(peers) /\ callsign_map[i].callsign <= p
      BY <1>0, <1>3, EntryOfLength DEF Ordered
    <3> QED  BY <3>1, <2>1
  <2>7. \A c \in 1 .. Len(peers) : \A n \in 1 .. Len(peers[c].routes) :
           c < p + 1 \/ (c = p + 1 /\ n < 1) =>
              \E i \in Entries : /\ Net(i) = Bits(peers[c].routes[n].addr, L)
                                 /\ callsign_map[i].callsign <= c
    BY <2>5, <1>3 DEF Ordered
  <2> QED  BY <2>4, <2>6, <2>7, <1>1, <1>3
           DEF Ordered, Entries, Net, Processed, Bits, AddrBits, s_addr
<1>6. CASE UNCHANGED vars
  BY <1>6, <1>3 DEF vars, Ordered, Entries, Net, Processed, Bits, AddrBits, s_addr
<1> QED  BY <1>4, <1>5, <1>6 DEF Next, Serve

(***************************************************************************)
(* Theorems.                                                               *)
(***************************************************************************)
RouteInv == TypeOK /\ Origin /\ OneLengthInv

LEMMA Invariant == Spec => []RouteInv
<1>1. Init => RouteInv
  <2> SUFFICES ASSUME Init, TypeOK, Origin PROVE OneLengthInv
    BY InitTyped DEF RouteInv
  <2>1. Len(callsign_map) = 0 /\ p = 1 /\ r = 1  BY EmptySeq DEF Init
  <2>2. Entries = {}  BY <2>1 DEF Entries
  <2>3. \A c \in 1 .. Len(peers) : \A n \in 1 .. Len(peers[c].routes) : ~Processed(c, n)
    BY <2>1 DEF Processed
  <2> QED  BY <2>2, <2>3 DEF OneLengthInv, Ordered
<1>2. RouteInv /\ [Next]_vars => RouteInv'
  BY NextTyped, NextOrdered DEF RouteInv
<1> QED  BY <1>1, <1>2, PTL DEF Spec

LEMMA Answers == RouteInv => OneLengthWorks
<1> SUFFICES ASSUME RouteInv, Built, OneLength, NEW a \in Addr
             PROVE  IF Covering(a) = {} THEN Callsign(a) = 0
                    ELSE /\ Callsign(a) \in Covering(a)
                         /\ \A c \in Covering(a) : Callsign(a) <= c
  BY DEF OneLengthWorks
<1>1. PICK L \in Lengths \ {0} : AllOf(L)  BY LengthOfAll DEF RouteInv
<1>2. L \in 1 .. AddrBits /\ Ordered(L)  BY <1>1, LengthsPositive DEF RouteInv, OneLengthInv
<1> QED  BY <1>1, <1>2, OrderedAnswers DEF RouteInv

\* The map only names peers whose configuration has the destination, whatever the
\* routes' lengths, overlaps and order are: m17tx_thread never sends a packet to a
\* station it was not meant for.
THEOREM OnlyToConfiguredHolds == Spec => []OnlyToConfigured
BY Invariant, OriginConfigured, PTL DEF RouteInv

\* With routes of one length the map answers as the plain reading of the
\* configuration does: the first peer that has the destination, or nobody.
THEOREM OneLengthWorksHolds == Spec => []OneLengthWorks
BY Invariant, Answers, PTL

\* With routes of one length that do not overlap, a packet the kernel's table brings
\* to the daemon by a peer's route is sent to that peer.
THEOREM SameGatewayHolds == Spec => []SameGateway
<1>1. RouteInv => SameGateway
  <2> SUFFICES ASSUME RouteInv, Built, OneLength, \A a \in Addr : Cardinality(Covering(a)) <= 1,
                      NEW c \in DOMAIN peers, NEW e \in KernelRoutes(c), NEW a \in Addr,
                      Bits(a, e.len) = e.net
               PROVE  Callsign(a) = e.via
    BY DEF SameGateway
  <2>1. c \in 1 .. Len(peers) /\ Len(peers) \in Nat /\ DOMAIN peers = 1 .. Len(peers)
    BY LenProperties DEF RouteInv, TypeOK
  <2>2. PICK L \in Lengths \ {0} : AllOf(L)  BY LengthOfAll DEF RouteInv
  <2>3. L \in 1 .. AddrBits /\ L \in 0 .. AddrBits  BY <2>2, LengthsPositive, AddrProperties
  <2>4. e.via = c /\ c \in Covering(a)
    <3>1. CASE e = [net |-> peers[c].ip, len |-> AddrBits, via |-> c]
      <4>1. AddrBits \in 0 .. AddrBits  BY AddrProperties
      <4>2. a = peers[c].ip  BY <3>1, <4>1, BitsProperties
      <4>3. Covers(c, a)  BY <4>2, <2>1, <2>2 DEF AllOf
      <4> QED  BY <3>1, <4>3 DEF Covering
    <3>2. ASSUME NEW x \in Range(peers[c].routes),
                 e = [net |-> Masked(x.addr, x.len), len |-> x.len, via |-> c]
          PROVE  e.via = c /\ c \in Covering(a)
      <4>1. x.len = L /\ x.addr \in Addr  BY <2>1, <2>2, RouteTyped DEF AllOf, RouteInv, Routes
      <4>2. Bits(a, L) = Bits(x.addr, L)  BY <3>2, <4>1, <2>3, MaskedBits
      <4> QED  BY <3>2, <4>1, <4>2 DEF Covering, Covers, InRoute
    <3> QED  BY <3>1, <3>2 DEF KernelRoutes
  <2>5. Covering(a) = {c}
    <3>1. IsFiniteSet(Covering(a))
      <4>1. IsFiniteSet(1 .. Len(peers))  BY <2>1, FS_Interval
      <4>2. Covering(a) \in SUBSET (1 .. Len(peers))  BY <2>1 DEF Covering
      <4> QED  BY <4>1, <4>2, FS_Subset
    <3>2. Cardinality(Covering(a)) \in Nat /\ Cardinality(Covering(a)) # 0
      BY <3>1, <2>4, FS_CardinalityType, FS_EmptySet
    <3>3. Cardinality(Covering(a)) = 1  BY <3>2
    <3>4. PICK d : Covering(a) = {d}  BY <3>1, <3>3, FS_Singleton
    <3> QED  BY <3>4, <2>4
  <2>6. Callsign(a) \in Covering(a)
    BY <2>5, Answers DEF OneLengthWorks
  <2> QED  BY <2>4, <2>5, <2>6
<1> QED  BY <1>1, Invariant, PTL
==============================================================================
