-------------------------- MODULE OneShotProofs --------------------------
(***************************************************************************)
(* Theorems about Kernels and OneShot, for any extents, vector widths,     *)
(* unrollings, panels, tiles and threads, and for any calls.               *)
(***************************************************************************)
EXTENDS OneShot, FiniteSetTheorems, TLAPS

-----------------------------------------------------------------------------
(* Arithmetic: what the loops' divisions and products amount to.           *)
LEMMA TimesMonotone ==
  ASSUME NEW a \in Int, NEW b \in Int, a <= b, NEW q \in Nat
  PROVE  a * q <= b * q
  OBVIOUS

LEMMA TimesCancels ==
  ASSUME NEW a \in Int, NEW b \in Int, NEW q \in Nat, a * q < b * q
  PROVE  a < b
<1>1. SUFFICES ASSUME b <= a PROVE b * q <= a * q
  OBVIOUS
<1>2. QED
  BY <1>1

LEMMA Quotient ==
  ASSUME NEW a \in Nat, NEW b \in Nat \ {0}
  PROVE  a \div b \in Nat /\ (a \div b) * b <= a /\ a < (a \div b + 1) * b
<1>1. PICK t \in Nat : t = a \div b
  OBVIOUS
<1>2. a % b \in Nat /\ a % b < b /\ a = b * t + (a % b)
  BY <1>1
<1>3. b * t = t * b /\ (t + 1) * b = t * b + b
  OBVIOUS
<1>4. QED
  BY <1>1, <1>2, <1>3

(* A number has one place in rows of the same length.                      *)
LEMMA PlaceUnique ==
  ASSUME NEW q \in Nat, NEW i \in Int, NEW j \in Int, NEW r \in Int, NEW c \in Int,
         0 <= j, j < q, 0 <= c, c < q, r * q + c = i * q + j
  PROVE  r = i /\ c = j
<1>1. r * q < (i + 1) * q /\ i * q < (r + 1) * q
  <2>1. (i + 1) * q = i * q + q /\ (r + 1) * q = r * q + q /\ r * q \in Int /\ i * q \in Int
    OBVIOUS
  <2>2. QED
    BY <2>1
<1>2. r < i + 1 /\ i < r + 1
  BY <1>1, TimesCancels
<1>3. r = i
  BY <1>2
<1>4. QED
  BY <1>3

LEMMA QuotientUnique ==
  ASSUME NEW b \in Nat \ {0}, NEW a \in Int, NEW t \in Int, NEW u \in Int,
         t * b <= a, a < (t + 1) * b, u * b <= a, a < (u + 1) * b
  PROVE  t = u
<1>1. t * b < (u + 1) * b /\ u * b < (t + 1) * b
  <2>1. t * b \in Int /\ u * b \in Int /\ (t + 1) * b \in Int /\ (u + 1) * b \in Int
    OBVIOUS
  <2>2. QED
    BY <2>1
<1>2. t < u + 1 /\ u < t + 1
  BY <1>1, TimesCancels
<1>3. QED
  BY <1>2

LEMMA CeilCovers ==
  ASSUME NEW x \in Nat, NEW y \in Nat \ {0}
  PROVE  CeilDiv(x, y) \in Nat /\ x <= CeilDiv(x, y) * y
<1>1. PICK t \in Nat : t = (x + y - 1) \div y /\ x + y - 1 < (t + 1) * y
  <2>1. x + y - 1 \in Nat
    OBVIOUS
  <2>2. QED
    BY <2>1, Quotient
<1>2. (t + 1) * y = t * y + y
  OBVIOUS
<1>3. x <= t * y
  BY <1>1, <1>2
<1>4. QED
  BY <1>1, <1>3 DEF CeilDiv

-----------------------------------------------------------------------------
(* Parts of one length, the last cut off: each index is in exactly one.    *)
LEMMA PartOnce ==
  ASSUME NEW e \in Nat, NEW step \in Nat \ {0}, NEW count \in Nat, e <= count * step,
         NEW x \in 0..(e - 1)
  PROVE  \E t \in 0..(count - 1) : \A u \in 0..(count - 1) :
           In(x, Span(u * step, Lesser((u + 1) * step, e))) <=> u = t
<1>1. PICK t \in Nat : t * step <= x /\ x < (t + 1) * step
  <2>1. x \in Nat
    OBVIOUS
  <2>2. x \div step \in Nat /\ (x \div step) * step <= x /\ x < (x \div step + 1) * step
    BY <2>1, Quotient
  <2>3. QED
    BY <2>2
<1>2. t < count
  <2>1. t * step < count * step
    BY <1>1
  <2>2. QED
    BY <2>1, TimesCancels
<1>3. ASSUME NEW u \in 0..(count - 1)
      PROVE  In(x, Span(u * step, Lesser((u + 1) * step, e))) <=> u = t
  <2>1. In(x, Span(u * step, Lesser((u + 1) * step, e)))
          <=> u * step <= x /\ x < (u + 1) * step
    BY DEF In, Span, Lesser
  <2>2. u * step <= x /\ x < (u + 1) * step <=> u = t
    BY <1>1, QuotientUnique
  <2>3. QED
    BY <2>1, <2>2
<1>4. t \in 0..(count - 1)
  BY <1>2
<1>5. QED
  BY <1>3, <1>4

PartsWith(e, step, x) == {c \in Chunks(e, step) : In(x, c)}

LEMMA ChunksOnce ==
  ASSUME NEW e \in Nat, NEW step \in Nat \ {0}
  PROVE  \A x \in 0..(e - 1) : \E s : PartsWith(e, step, x) = {s}
<1> DEFINE P(u) == Span(u * step, Lesser((u + 1) * step, e))
<1>1. TAKE x \in 0..(e - 1)
<1>2. PICK t \in 0..(CeilDiv(e, step) - 1) :
        \A u \in 0..(CeilDiv(e, step) - 1) : In(x, P(u)) <=> u = t
  BY CeilCovers, PartOnce
<1>3. Chunks(e, step) = {P(u) : u \in 0..(CeilDiv(e, step) - 1)}
  BY DEF Chunks
<1> HIDE DEF P
<1>4. PartsWith(e, step, x) = {P(t)}
  BY <1>2, <1>3 DEF PartsWith
<1>5. QED
  BY <1>4

-----------------------------------------------------------------------------
(* The loops over a row: each column is met by one of them, and none of    *)
(* them leaves the row.                                                    *)
RowOnce(loops, n, pitch) ==
  /\ \A j \in 0..(n - 1) : \E s \in loops : \A u \in loops : In(j, u) <=> u = s
  /\ \A s \in loops : \A c \in Nat : In(c, s) => c < pitch

(* One write for each element of the m rows.                               *)
OneWrite(m, n, loops, pitch) ==
  \A i \in 0..(m - 1), j \in 0..(n - 1) :
    \E w : Writes(0..(m - 1), loops, pitch, i, j) = {w}

LEMMA WritesOnce ==
  ASSUME NEW m, m \in Nat \ {0}, NEW n, n \in Nat \ {0}, NEW pitch, pitch \in Nat,
         n <= pitch, NEW loops, RowOnce(loops, n, pitch)
  PROVE  OneWrite(m, n, loops, pitch)
<1> DEFINE rows == 0..(m - 1)
<1> SUFFICES ASSUME NEW i \in rows, NEW j \in 0..(n - 1)
             PROVE  \E w : Writes(rows, loops, pitch, i, j) = {w}
  BY DEF OneWrite
<1>1. PICK s \in loops : \A u \in loops : In(j, u) <=> u = s
  BY DEF RowOnce
<1>2. \A u \in loops : \A c \in Nat : In(c, u) => c < pitch
  BY DEF RowOnce
<1> DEFINE W == rows \X loops \X (0..(2 * pitch))
<1>3. <<i, s, j>> \in Writes(rows, loops, pitch, i, j)
  <2>1. j \in 0..(2 * pitch)
    OBVIOUS
  <2>2. <<i, s, j>> \in W
    BY <1>1, <2>1
  <2>3. In(j, s)
    BY <1>1
  <2>4. QED
    BY <2>2, <2>3 DEF Writes
<1>4. ASSUME NEW w \in Writes(rows, loops, pitch, i, j)
      PROVE  w = <<i, s, j>>
  <2>1. w \in W /\ In(w[3], w[2]) /\ w[1] * pitch + w[3] = i * pitch + j
    BY DEF Writes
  <2>2. PICK r \in rows, u \in loops, c \in 0..(2 * pitch) : w = <<r, u, c>>
    <3>1. w = <<w[1], w[2], w[3]>> /\ w[1] \in rows /\ w[2] \in loops
          /\ w[3] \in 0..(2 * pitch)
      BY <2>1
    <3>2. QED
      BY <3>1
  <2>3. In(c, u) /\ r * pitch + c = i * pitch + j
    BY <2>1, <2>2
  <2>4. c < pitch /\ c \in Nat
    BY <1>2, <2>3
  <2>5. r = i /\ c = j
    <3>1. /\ r \in Int /\ c \in Int /\ i \in Int /\ j \in Int
          /\ 0 <= j /\ j < pitch /\ 0 <= c /\ c < pitch
      BY <2>4
    <3>2. QED
      BY <2>3, <3>1, PlaceUnique
  <2>6. u = s
    BY <1>1, <2>3, <2>5
  <2>7. QED
    BY <2>2, <2>5, <2>6
<1>5. QED
  BY <1>3, <1>4

(* A loop with a fixed step stops between its first column and the end.    *)
LEMMA StopsIn ==
  ASSUME NEW lo \in Nat, NEW n \in Nat, lo <= n, NEW step \in Nat \ {0}
  PROVE  /\ Stops(lo, n, step) \in lo..n
         /\ \E q \in Nat : Stops(lo, n, step) = lo + q * step
<1>1. CASE n <= lo
  <2>1. Stops(lo, n, step) = lo /\ lo = lo + 0 * step
    BY <1>1 DEF Stops
  <2>2. QED
    BY <2>1
<1>2. CASE lo < n
  <2>1. n - lo \in Nat
    BY <1>2
  <2>2. PICK q \in Nat : q = (n - lo) \div step /\ q * step <= n - lo
    BY <2>1, Quotient
  <2>3. Stops(lo, n, step) = lo + q * step
    <3>1. step * q = q * step
      OBVIOUS
    <3>2. QED
      BY <1>2, <2>2, <3>1 DEF Stops
  <2>4. q * step \in Nat
    OBVIOUS
  <2>5. QED
    BY <2>2, <2>3, <2>4
<1>3. QED
  BY <1>1, <1>2

LEMMA WideThin ==
  ASSUME NEW n \in Nat
  PROVE  \E a \in 0..n, b \in 0..n :
           /\ a <= b /\ Wide(n) = Span(0, a) /\ Thin(n) = Span(a, b)
           /\ Thin(n).hi = b
           /\ a = Stops(0, n, Unroll * Vec) /\ b = Stops(a, n, Vec)
<1>1. Unroll * Vec \in Nat \ {0} /\ Vec \in Nat \ {0}
  BY KernelAssumption
<1>2. PICK a \in 0..n : a = Stops(0, n, Unroll * Vec)
  <2>1. PICK u \in Nat \ {0} : u = Unroll * Vec
    BY <1>1
  <2>2. Stops(0, n, u) \in 0..n
    BY StopsIn
  <2>3. QED
    BY <2>1, <2>2
<1>3. PICK b \in a..n : b = Stops(a, n, Vec)
  <2>1. a \in Nat /\ a <= n
    OBVIOUS
  <2>2. Stops(a, n, Vec) \in a..n
    BY <1>1, <2>1, StopsIn
  <2>3. QED
    BY <2>2
<1>4. Wide(n) = Span(0, a) /\ Wide(n).hi = a
  BY <1>2 DEF Wide, Span
<1>5. Thin(n) = Span(a, b) /\ Thin(n).hi = b
  BY <1>3, <1>4 DEF Thin, Span
<1>6. QED
  BY <1>2, <1>3, <1>4, <1>5

LEMMA HostRow == ASSUME NEW n \in Nat PROVE RowOnce(HostLoops(n), n, n)
<1>1. PICK a \in 0..n, b \in 0..n :
        /\ a <= b /\ Wide(n) = Span(0, a) /\ Thin(n) = Span(a, b) /\ Thin(n).hi = b
  BY WideThin
<1>2. HostLoops(n) = {Span(0, a), Span(a, b), Span(b, n)}
  BY <1>1 DEF HostLoops
<1>3. \A c \in Nat : /\ In(c, Span(0, a)) <=> c < a
                     /\ In(c, Span(a, b)) <=> a <= c /\ c < b
                     /\ In(c, Span(b, n)) <=> b <= c /\ c < n
  BY <1>1 DEF In, Span
<1>4. ASSUME NEW j \in 0..(n - 1)
      PROVE  \E s \in HostLoops(n) : \A u \in HostLoops(n) : In(j, u) <=> u = s
  <2>1. CASE j < a
    <3>1. In(j, Span(0, a)) /\ ~In(j, Span(a, b)) /\ ~In(j, Span(b, n))
      BY <1>1, <1>3, <2>1
    <3>2. QED
      BY <1>2, <3>1
  <2>2. CASE a <= j /\ j < b
    <3>1. ~In(j, Span(0, a)) /\ In(j, Span(a, b)) /\ ~In(j, Span(b, n))
      BY <1>1, <1>3, <2>2
    <3>2. QED
      BY <1>2, <3>1
  <2>3. CASE b <= j
    <3>1. ~In(j, Span(0, a)) /\ ~In(j, Span(a, b)) /\ In(j, Span(b, n))
      BY <1>1, <1>3, <2>3
    <3>2. QED
      BY <1>2, <3>1
  <2>4. QED
    BY <1>1, <2>1, <2>2, <2>3
<1>5. \A s \in HostLoops(n) : \A c \in Nat : In(c, s) => c < n
  BY <1>1, <1>2, <1>3
<1>6. QED
  BY <1>4, <1>5 DEF RowOnce

(* Padded rows are whole vectors, so that nothing is left of them.         *)
LEMMA PadIs ==
  ASSUME NEW n \in Nat
  PROVE  /\ Pad(n) \in Nat /\ n <= Pad(n)
         /\ \E q \in Nat : Pad(n) = q * Vec
<1>1. Vec \in Nat \ {0}
  BY KernelAssumption
<1>2. CeilDiv(n, Vec) \in Nat /\ n <= CeilDiv(n, Vec) * Vec
  BY <1>1, CeilCovers
<1>3. Vec * CeilDiv(n, Vec) = CeilDiv(n, Vec) * Vec
  BY <1>1, <1>2
<1>4. Pad(n) = CeilDiv(n, Vec) * Vec
  BY <1>3 DEF Pad
<1>5. CeilDiv(n, Vec) * Vec \in Nat
  BY <1>1, <1>2
<1>6. QED
  BY <1>2, <1>4, <1>5

LEMMA StopsAtEnd ==
  ASSUME NEW a \in Nat, NEW q \in Nat, NEW v \in Nat \ {0}, a * v <= q * v
  PROVE  Stops(a * v, q * v, v) = q * v
<1>1. CASE q * v <= a * v
  <2>1. a * v = q * v
    BY <1>1
  <2>2. QED
    BY <1>1, <2>1 DEF Stops
<1>2. CASE a * v < q * v
  <2>1. a < q /\ q - a \in Nat /\ q * v - a * v = (q - a) * v
    BY <1>2, TimesCancels
  <2>2. (q * v - a * v) \div v = q - a
    <3>1. PICK t \in Nat : t = ((q - a) * v) \div v /\ t * v <= (q - a) * v
                            /\ (q - a) * v < (t + 1) * v
      <4>1. (q - a) * v \in Nat
        BY <2>1
      <4>2. QED
        BY <4>1, Quotient
    <3>2. (q - a) * v < (q - a + 1) * v
      <4>1. (q - a + 1) * v = (q - a) * v + v
        BY <2>1
      <4>2. QED
        BY <2>1, <4>1
    <3>3. t = q - a
      BY <2>1, <3>1, <3>2, QuotientUnique
    <3>4. QED
      BY <2>1, <3>1, <3>3
  <2>3. Stops(a * v, q * v, v) = a * v + v * (q - a)
    BY <1>2, <2>2 DEF Stops
  <2>4. v * (q - a) = (q - a) * v
    BY <2>1
  <2>5. QED
    BY <2>1, <2>3, <2>4
<1>3. QED
  BY <1>1, <1>2

LEMMA PhiRow == ASSUME NEW n \in Nat PROVE RowOnce(PhiLoops(n), n, Pad(n))
<1> DEFINE p == Pad(n)
<1>1. p \in Nat /\ n <= p
  BY PadIs
<1>2. PICK q \in Nat : p = q * Vec
  BY PadIs
<1>3. PICK a \in 0..p, b \in 0..p :
        /\ a <= b /\ Wide(p) = Span(0, a) /\ Thin(p) = Span(a, b)
        /\ a = Stops(0, p, Unroll * Vec) /\ b = Stops(a, p, Vec)
  BY <1>1, WideThin
<1>4. b = p
  <2>1. Vec \in Nat \ {0} /\ Unroll \in Nat \ {0} /\ Unroll * Vec \in Nat \ {0}
    BY KernelAssumption
  <2>2. PICK t \in Nat : a = t * (Unroll * Vec)
    <3>1. PICK u \in Nat \ {0} : u = Unroll * Vec
      BY <2>1
    <3>2. PICK lo \in Nat : lo = 0
      OBVIOUS
    <3>3. lo <= p
      BY <1>1, <3>2
    <3>4. \E t \in Nat : Stops(lo, p, u) = lo + t * u
      BY <1>1, <3>3, StopsIn
    <3>5. PICK t \in Nat : a = lo + t * u
      BY <1>3, <3>1, <3>2, <3>4
    <3>6. lo + t * u = t * u
      BY <3>2
    <3>7. QED
      BY <3>1, <3>5, <3>6
  <2>3. t * (Unroll * Vec) = (t * Unroll) * Vec /\ t * Unroll \in Nat
    BY <2>1
  <2>4. PICK w \in Nat : a = w * Vec
    BY <2>2, <2>3
  <2>5. Stops(a, p, Vec) = p
    <3>1. w * Vec <= q * Vec
      BY <1>2, <1>3, <2>4
    <3>2. Stops(w * Vec, q * Vec, Vec) = q * Vec
      BY <2>1, <3>1, StopsAtEnd
    <3>3. QED
      BY <1>2, <2>4, <3>2
  <2>6. QED
    BY <1>3, <2>5
<1>5. PhiLoops(n) = {Span(0, a), Span(a, p)}
  BY <1>3, <1>4 DEF PhiLoops
<1> HIDE DEF p
<1>6. \A c \in Nat : /\ In(c, Span(0, a)) <=> c < a
                     /\ In(c, Span(a, p)) <=> a <= c /\ c < p
  BY <1>3 DEF In, Span
<1>7. ASSUME NEW j \in 0..(n - 1)
      PROVE  \E s \in PhiLoops(n) : \A u \in PhiLoops(n) : In(j, u) <=> u = s
  <2>1. j \in Nat /\ j < p
    BY <1>1
  <2>2. CASE j < a
    <3>1. In(j, Span(0, a)) /\ ~In(j, Span(a, p))
      BY <1>3, <1>6, <2>1, <2>2
    <3>2. QED
      BY <1>5, <3>1
  <2>3. CASE a <= j
    <3>1. ~In(j, Span(0, a)) /\ In(j, Span(a, p))
      BY <1>3, <1>6, <2>1, <2>3
    <3>2. QED
      BY <1>5, <3>1
  <2>4. QED
    BY <1>3, <2>1, <2>2, <2>3
<1>8. \A s \in PhiLoops(n) : \A c \in Nat : In(c, s) => c < p
  BY <1>1, <1>3, <1>5, <1>6
<1>9. QED
  BY <1>7, <1>8 DEF RowOnce, p

-----------------------------------------------------------------------------
(* The kernels: each adds every product of its operands once.              *)
Extents(p) == p.m \in Nat \ {0} /\ p.n \in Nat \ {0} /\ p.k \in Nat \ {0}

LEMMA CellIn ==
  ASSUME NEW p, Extents(p), NEW x \in Cells(p)
  PROVE  x[1] \in 0..(p.m - 1) /\ x[2] \in 0..(p.n - 1) /\ x[3] \in 0..(p.k - 1)
  BY DEF Cells

LEMMA CardinalityOne == \A x : Cardinality({x}) = 1
  BY FS_Singleton

HostCount(m, n, k, i, j, l) ==
  Cardinality(PartsWith(k, Panel, l) \X Writes(0..(m - 1), HostLoops(n), n, i, j))
TileCount(m, n, k, i, j, l) ==
  Cardinality({b \in Chunks(m, Tile) \X Chunks(n, Tile) \X Chunks(k, Tile) :
                 In(i, b[1]) /\ In(j, b[2]) /\ In(l, b[3])})

LEMMA HostCell ==
  \A m, n, k \in Nat \ {0} : \A i \in 0..(m - 1), j \in 0..(n - 1), l \in 0..(k - 1) :
    HostCount(m, n, k, i, j, l) = 1
<1>1. TAKE m, n, k \in Nat \ {0}
<1>2. TAKE i \in 0..(m - 1), j \in 0..(n - 1), l \in 0..(k - 1)
<1>3. PICK s : PartsWith(k, Panel, l) = {s}
  <2>1. k \in Nat /\ Panel \in Nat \ {0}
    BY KernelAssumption
  <2>2. QED
    BY <2>1, ChunksOnce
<1>4. PICK w : Writes(0..(m - 1), HostLoops(n), n, i, j) = {w}
  <2>1. RowOnce(HostLoops(n), n, n) /\ n \in Nat /\ n <= n
    BY HostRow
  <2>2. OneWrite(m, n, HostLoops(n), n)
    BY <2>1, WritesOnce
  <2>3. QED
    BY <2>2 DEF OneWrite
<1>5. {s} \X {w} = {<<s, w>>}
  OBVIOUS
<1>6. QED
  BY <1>3, <1>4, <1>5, CardinalityOne DEF HostCount

LEMMA HostKernelOnce == ASSUME NEW p, Extents(p) PROVE HostKernel(p) = Product(p)
<1>1. \A x \in Cells(p) : HostCount(p.m, p.n, p.k, x[1], x[2], x[3]) = 1
  BY CellIn, HostCell DEF Extents
<1>2. HostKernel(p) = [x \in Cells(p) |-> HostCount(p.m, p.n, p.k, x[1], x[2], x[3])]
  BY DEF HostKernel, HostCount, PartsWith
<1>3. QED
  BY <1>1, <1>2 DEF Product

LEMMA ImciCell ==
  \A m, n \in Nat \ {0} : \A i \in 0..(m - 1), j \in 0..(n - 1) :
    Cardinality(Writes(0..(m - 1), PhiLoops(n), Pad(n), i, j)) = 1
<1>1. TAKE m, n \in Nat \ {0}
<1>2. TAKE i \in 0..(m - 1), j \in 0..(n - 1)
<1>3. RowOnce(PhiLoops(n), n, Pad(n)) /\ Pad(n) \in Nat /\ n <= Pad(n)
  BY PadIs, PhiRow
<1>4. OneWrite(m, n, PhiLoops(n), Pad(n))
  BY <1>3, WritesOnce
<1>5. PICK w : Writes(0..(m - 1), PhiLoops(n), Pad(n), i, j) = {w}
  BY <1>4 DEF OneWrite
<1>6. QED
  BY <1>5, CardinalityOne

LEMMA ImciKernelOnce == ASSUME NEW p, Extents(p) PROVE ImciKernel(p) = Product(p)
<1>1. ASSUME NEW x \in Cells(p)
      PROVE  Cardinality(Writes(0..(p.m - 1), PhiLoops(p.n), Pad(p.n), x[1], x[2])) = 1
  BY CellIn, ImciCell DEF Extents
<1>2. QED
  BY <1>1 DEF ImciKernel, Product

(* The scaling's single loop goes over whole vectors, too.                 *)
LEMMA PrepRow ==
  ASSUME NEW n \in Nat
  PROVE  RowOnce({Span(0, Stops(0, Pad(n), Vec))}, n, Pad(n))
<1>1. Pad(n) \in Nat /\ n <= Pad(n)
  BY PadIs
<1>2. PICK q \in Nat : Pad(n) = q * Vec
  BY PadIs
<1>3. Stops(0, Pad(n), Vec) = Pad(n)
  <2>1. Vec \in Nat \ {0}
    BY KernelAssumption
  <2>2. PICK z \in Nat : z = 0
    OBVIOUS
  <2>3. z * Vec = 0 /\ z * Vec <= q * Vec
    BY <1>1, <1>2, <2>1, <2>2
  <2>4. Stops(z * Vec, q * Vec, Vec) = q * Vec
    BY <2>1, <2>3, StopsAtEnd
  <2>5. QED
    BY <1>2, <2>3, <2>4
<1>4. \A c \in Nat : In(c, Span(0, Pad(n))) <=> c < Pad(n)
  BY DEF In, Span
<1>5. RowOnce({Span(0, Pad(n))}, n, Pad(n))
  BY <1>1, <1>4 DEF RowOnce
<1>6. QED
  BY <1>3, <1>5

LEMMA PrepCell ==
  \A m, n \in Nat \ {0} : \A i \in 0..(m - 1), j \in 0..(n - 1) :
    Cardinality(Writes(0..(m - 1), {Span(0, Stops(0, Pad(n), Vec))}, Pad(n), i, j)) = 1
<1>1. TAKE m, n \in Nat \ {0}
<1>2. TAKE i \in 0..(m - 1), j \in 0..(n - 1)
<1>3. RowOnce({Span(0, Stops(0, Pad(n), Vec))}, n, Pad(n)) /\ Pad(n) \in Nat /\ n <= Pad(n)
  BY PadIs, PrepRow
<1>4. OneWrite(m, n, {Span(0, Stops(0, Pad(n), Vec))}, Pad(n))
  BY <1>3, WritesOnce
<1>5. PICK w : Writes(0..(m - 1), {Span(0, Stops(0, Pad(n), Vec))}, Pad(n), i, j) = {w}
  BY <1>4 DEF OneWrite
<1>6. QED
  BY <1>5, CardinalityOne

LEMMA PrepKernelOnce == ASSUME NEW p, Extents(p) PROVE PrepKernel(p) = Product(p)
<1>1. ASSUME NEW x \in Cells(p)
      PROVE  Cardinality(Writes(0..(p.m - 1), {Span(0, Stops(0, Pad(p.n), Vec))}, Pad(p.n),
                                x[1], x[2])) = 1
  BY CellIn, PrepCell DEF Extents
<1>2. QED
  BY <1>1 DEF PrepKernel, Product

LEMMA PthreadRow ==
  \A m, threads \in Nat \ {0} : \A i \in 0..(m - 1) :
    Cardinality({t \in 0..(Threads(m, threads) - 1) : In(i, ThreadRows(m, t, threads))}) = 1
<1>1. TAKE m, threads \in Nat \ {0}
<1>2. TAKE i \in 0..(m - 1)
<1>3. PICK count \in Nat \ {0} : count = Threads(m, threads)
  BY DEF Threads, Lesser
<1>4. PICK chunk \in Nat : chunk = CeilDiv(m, count) /\ m <= chunk * count
  <2>1. m \in Nat
    OBVIOUS
  <2>2. QED
    BY <2>1, CeilCovers
<1>5. chunk \in Nat \ {0} /\ m <= count * chunk /\ m \in Nat /\ count \in Nat
  <2>1. chunk * count = count * chunk /\ 0 * count = 0
    OBVIOUS
  <2>2. QED
    BY <1>4, <2>1
<1>6. PICK t \in 0..(count - 1) : \A u \in 0..(count - 1) :
        In(i, Span(u * chunk, Lesser((u + 1) * chunk, m))) <=> u = t
  BY <1>5, PartOnce
<1>7. \A u : ThreadRows(m, u, threads) = Span(u * chunk, Lesser((u + 1) * chunk, m))
  BY <1>3, <1>4 DEF ThreadRows
<1>8. {u \in 0..(count - 1) : In(i, ThreadRows(m, u, threads))} = {t}
  BY <1>6, <1>7
<1>9. QED
  BY <1>3, <1>8, CardinalityOne

LEMMA PthreadKernelOnce ==
  ASSUME NEW p, Extents(p), NEW threads \in Nat \ {0}
  PROVE  PthreadKernel(p, threads) = Product(p)
<1>1. ASSUME NEW x \in Cells(p)
      PROVE  Cardinality({t \in 0..(Threads(p.m, threads) - 1) :
                            In(x[1], ThreadRows(p.m, t, threads))}) = 1
  BY CellIn, PthreadRow DEF Extents
<1>2. QED
  BY <1>1 DEF PthreadKernel, Product

LEMMA TileCell ==
  \A m, n, k \in Nat \ {0} : \A i \in 0..(m - 1), j \in 0..(n - 1), l \in 0..(k - 1) :
    TileCount(m, n, k, i, j, l) = 1
<1>1. TAKE m, n, k \in Nat \ {0}
<1>2. TAKE i \in 0..(m - 1), j \in 0..(n - 1), l \in 0..(k - 1)
<1>3. m \in Nat /\ n \in Nat /\ k \in Nat /\ Tile \in Nat \ {0}
  BY KernelAssumption
<1>4. PICK A, B, C : A = Chunks(m, Tile) /\ B = Chunks(n, Tile) /\ C = Chunks(k, Tile)
  OBVIOUS
<1>5. PICK s : {c \in A : In(i, c)} = {s}
  <2>1. \E s : PartsWith(m, Tile, i) = {s}
    BY <1>3, ChunksOnce
  <2>2. QED
    BY <1>4, <2>1 DEF PartsWith
<1>6. PICK u : {c \in B : In(j, c)} = {u}
  <2>1. \E u : PartsWith(n, Tile, j) = {u}
    BY <1>3, ChunksOnce
  <2>2. QED
    BY <1>4, <2>1 DEF PartsWith
<1>7. PICK v : {c \in C : In(l, c)} = {v}
  <2>1. \E v : PartsWith(k, Tile, l) = {v}
    BY <1>3, ChunksOnce
  <2>2. QED
    BY <1>4, <2>1 DEF PartsWith
<1>8. {b \in A \X B \X C : In(i, b[1]) /\ In(j, b[2]) /\ In(l, b[3])} = {<<s, u, v>>}
  <2>1. s \in A /\ u \in B /\ v \in C /\ In(i, s) /\ In(j, u) /\ In(l, v)
    BY <1>5, <1>6, <1>7
  <2>2. ASSUME NEW b \in A \X B \X C, In(i, b[1]), In(j, b[2]), In(l, b[3])
        PROVE  b = <<s, u, v>>
    <3>1. b = <<b[1], b[2], b[3]>> /\ b[1] \in A /\ b[2] \in B /\ b[3] \in C
      OBVIOUS
    <3>2. b[1] = s /\ b[2] = u /\ b[3] = v
      BY <1>5, <1>6, <1>7, <2>2, <3>1
    <3>3. QED
      BY <3>1, <3>2
  <2>3. QED
    BY <2>1, <2>2
<1>9. QED
  BY <1>4, <1>8, CardinalityOne DEF TileCount

LEMMA TileKernelOnce == ASSUME NEW p, Extents(p) PROVE TileKernel(p) = Product(p)
<1>1. \A x \in Cells(p) : TileCount(p.m, p.n, p.k, x[1], x[2], x[3]) = 1
  BY CellIn, TileCell DEF Extents
<1>2. TileKernel(p) = [x \in Cells(p) |-> TileCount(p.m, p.n, p.k, x[1], x[2], x[3])]
  BY DEF TileKernel, TileCount
<1>3. QED
  BY <1>1, <1>2 DEF Product

(* For all extents, vector widths, unrollings, panels, tiles and threads:  *)
(* each of the project's kernels adds each product A[i, l] * B[l, j] to    *)
(* C[i, j] once; a step past a row's end would be one too many of the next *)
(* row.                                                                    *)
KernelNames == {"avx512", "tiled", "imci", "pthread", "prep", "mkl", "nlc", "numpy"}
THEOREM KernelsAreProducts ==
  ASSUME NEW p, Extents(p), NEW threads \in Nat \ {0}, NEW loop \in KernelNames
  PROVE  Computed(loop, p, threads) = Product(p)
<1>1. CASE loop = "avx512"
  BY <1>1, HostKernelOnce DEF Computed
<1>2. CASE loop = "tiled"
  BY <1>2, TileKernelOnce DEF Computed
<1>3. CASE loop = "imci"
  BY <1>3, ImciKernelOnce DEF Computed
<1>4. CASE loop = "pthread"
  BY <1>4, PthreadKernelOnce DEF Computed
<1>5. CASE loop = "prep"
  BY <1>5, PrepKernelOnce DEF Computed
<1>6. CASE loop \in {"mkl", "nlc", "numpy"}
  BY <1>6 DEF Computed
<1>7. QED
  BY <1>1, <1>2, <1>3, <1>4, <1>5, <1>6 DEF KernelNames

-----------------------------------------------------------------------------
(* The calls.  A call whose files nobody else touches finds its own        *)
(* operands in the input file, its run computes with them, and leaves the  *)
(* product of a whole kernel in the output file.                           *)
Nowhere == {"start", "build", "making", "made", "building", "stage"}
Before == Nowhere \cup {"putting", "staged", "deploying", "deployed"}
Running == {"started", "computing", "writing", "done"}
Outs == [of : Calls \cup {Nobody}, by : KernelNames \cup {"torn", "none"}]

TypeOK ==
  /\ setup \in Setups
  /\ target \in [Calls -> Programs \cup {"none"}]
  /\ pc \in [Calls -> Before \cup {"waiting", "returned", "raised"}]
  /\ kernel \in [Calls -> KernelNames \cup {"torn"}]
  /\ input \in [FileNames -> Calls \cup {Nobody}]
  /\ output \in [FileNames -> Outs]
  /\ run \in [Calls -> Running \cup {"none", "failed"}]
  /\ operands \in [Calls -> Calls \cup {Nobody}]
  /\ got \in [Calls -> Outs]
  /\ alone \in [Calls -> BOOLEAN]

(* A call builds nothing only where there is nothing to build.             *)
HasTarget ==
  \A c \in Calls : pc[c] \in Before \ {"start"} /\ target[c] = "none"
                     => Kind(c) \in {"tiled", "numpy"}

(* A process is started after everything is in place, and only of a whole  *)
(* program.                                                                *)
RunsWhole ==
  \A c \in Calls : /\ pc[c] \in Before => run[c] = "none"
                   /\ run[c] \in Running => kernel[c] \in KernelNames

Own(c) ==
  /\ \A e \in Calls : Same(c, e) => pc[e] \notin Staged /\ ~Alive(e)
  /\ pc[c] # "putting" => input[Files(c)] = c
  /\ run[c] \in {"computing", "writing", "done"} => operands[c] = c
  /\ run[c] = "done" => output[Files(c)] = [of |-> c, by |-> kernel[c]]
OwnFiles == \A c \in Calls : pc[c] \in Staged /\ alone[c] => Own(c)

Inv == TypeOK /\ HasTarget /\ RunsWhole /\ OwnFiles /\ ReturnedIsProduct

LEMMA KindIn ==
  ASSUME TypeOK, NEW c \in Calls
  PROVE  Kind(c) \in Kinds /\ Extents(setup[c]) /\ setup[c].threads \in Nat \ {0}
<1>1. setup \in [Calls -> Setup] /\ setup \in Setups
  BY OneShotAssumption DEF TypeOK
<1>2. setup[c] \in Setup
  BY <1>1
<1>3. setup[c].m > 0 /\ setup[c].n > 0 /\ setup[c].k > 0
  BY <1>1, OneShotAssumption
<1>4. QED
  BY <1>2, <1>3 DEF Setup, Kind, Extents

LEMMA SameSetup ==
  ASSUME setup' = setup
  PROVE  /\ \A d : Kind(d)' = Kind(d) /\ Files(d)' = Files(d)
         /\ \A d, e : Same(d, e)' <=> Same(d, e)
<1>1. \A d : Kind(d)' = Kind(d) /\ Files(d)' = Files(d)
  BY DEF Kind, Files, OnPhi, Scales
<1>2. QED
  BY <1>1 DEF Same

LEMMA FileIn == \A c \in Calls : Files(c) \in FileNames
  BY DEF Files, FileNames

(* Only the calls on the Phi share files.                                  *)
LEMMA OnlyPhi ==
  ASSUME NEW c \in Calls, NEW d \in Calls, Same(c, d)
  PROVE  OnPhi(c) /\ OnPhi(d)
  BY OneShotAssumption DEF Same, Files, Nobody

callVars == <<kernel, input, output, run, operands, got, alone>>

(* What a call did that touched none of its files.                         *)
LEMMA Moves ==
  ASSUME Inv, NEW c \in Calls, NEW w \in Nowhere \cup {"raised"},
         UNCHANGED <<setup, callVars>>, pc' = [pc EXCEPT ![c] = w],
         target' \in [Calls -> Programs \cup {"none"}],
         \A d \in Calls \ {c} : target'[d] = target[d],
         w = "raised" \/ /\ pc[c] \in Before
                         /\ target'[c] # "none" \/ Kind(c) \in {"tiled", "numpy"}
  PROVE  Inv'
<1> USE DEF Inv
<1>1. TypeOK'
  BY DEF TypeOK, callVars, Before
<1>2. \A d \in Calls : pc'[d] = IF d = c THEN w ELSE pc[d]
  BY DEF TypeOK
<1>3. HasTarget'
  BY <1>2, SameSetup DEF HasTarget, Before, Nowhere
<1>4. RunsWhole'
  BY <1>2 DEF RunsWhole, callVars, Before, Nowhere
<1>5. OwnFiles'
  <2> SUFFICES ASSUME NEW d \in Calls, pc'[d] \in Staged, alone'[d]
               PROVE  Own(d)'
    BY DEF OwnFiles, Staged
  <2>1. d # c /\ pc'[d] = pc[d] /\ Own(d)
    BY <1>2 DEF Nowhere, Staged, OwnFiles, callVars
  <2>2. \A e \in Calls : Same(d, e)' => pc'[e] \notin Staged /\ ~Alive(e)'
    BY <1>2, <2>1, SameSetup DEF Own, Alive, callVars, Nowhere, Staged
  <2>3. QED
    BY <2>1, <2>2, SameSetup DEF Own, Staged, callVars
<1>6. ReturnedIsProduct'
  BY <1>2 DEF ReturnedIsProduct, Agrees, Kind, callVars, Nowhere
<1>7. QED
  BY <1>1, <1>3, <1>4, <1>5, <1>6

LEMMA InitInv == Init => Inv
<1> SUFFICES ASSUME Init PROVE Inv
  OBVIOUS
<1>1. TypeOK
  BY DEF Init, TypeOK, Before, Nowhere, Outs, NoFile
<1>2. HasTarget /\ RunsWhole /\ OwnFiles
  BY DEF Init, HasTarget, RunsWhole, OwnFiles, Before, Nowhere, Running, Staged
<1>3. ReturnedIsProduct
  BY DEF Init, ReturnedIsProduct
<1>4. QED
  BY <1>1, <1>2, <1>3 DEF Inv

LEMMA MayWantIn == \A c \in Calls : MayWant(c) \subseteq Programs
  BY DEF MayWant, Programs, InContainer

LEMMA BuildSteps ==
  ASSUME Inv, NEW c \in Calls,
         \/ Begin(c) \/ ProbeTimesOut(c) \/ CompilerFails(c) \/ CompileVe(c)
         \/ CompileHost(c) \/ MakeImci(c) \/ MakeMkl(c) \/ MakePrep(c) \/ MakeEnds(c)
         \/ CopyOut(c) \/ BuildEnds(c) \/ WriteBreaks(c) \/ DeployTimesOut(c)
         \/ GetNothing(c) \/ TransferFails(c)
  PROVE  Inv'
<1>1. TypeOK /\ HasTarget
  BY DEF Inv
<1>2. CASE Begin(c)
  <2>1. UNCHANGED <<setup, callVars>> /\ pc[c] = "start"
    BY <1>2 DEF Begin, runVars, callVars
  <2>2. CASE BeginInProcess(c)
    <3>1. Kind(c) \in {"tiled", "numpy"}
      <4>1. MayWant(c) = {} /\ Kind(c) \in Kinds
        BY <1>1, <2>2, KindIn DEF BeginInProcess
      <4>2. Kind(c) \notin {"phi", "prep", "scale"}
        BY <4>1 DEF MayWant, Scales
      <4>3. Kind(c) \notin Programs
        BY <4>1, <4>2 DEF MayWant, Scales
      <4>4. QED
        BY <4>1, <4>2, <4>3 DEF Kinds, Programs, InContainer
    <3>2. pc' = [pc EXCEPT ![c] = "stage"] /\ target' = target
      BY <2>2 DEF BeginInProcess, Goto
    <3>3. QED
      BY <1>1, <2>1, <3>1, <3>2, Moves DEF TypeOK, Nowhere, Before
  <2>3. ASSUME NEW p \in Programs, Find(c, p) PROVE Inv'
    <3>1. PICK w \in {"stage", "build"} : pc' = [pc EXCEPT ![c] = w]
      BY <2>3 DEF Find, Goto
    <3>2. target' = [target EXCEPT ![c] = p] /\ p # "none"
      BY <2>3 DEF Find, Programs, InContainer
    <3>3. /\ target' \in [Calls -> Programs \cup {"none"}] /\ target'[c] # "none"
          /\ \A d \in Calls \ {c} : target'[d] = target[d]
      BY <1>1, <3>2 DEF TypeOK
    <3>4. QED
      BY <2>1, <3>1, <3>3, Moves DEF Nowhere, Before
  <2>4. BeginInProcess(c) \/ \E p \in Programs : Find(c, p)
    BY <1>2, MayWantIn DEF Begin, BeginPhi, BeginOne, Programs, InContainer
  <2>5. QED
    BY <2>2, <2>3, <2>4
<1>3. CASE \/ ProbeTimesOut(c) \/ DeployTimesOut(c) \/ GetNothing(c) \/ TransferFails(c)
  <2>1. /\ UNCHANGED <<setup, callVars>> /\ pc' = [pc EXCEPT ![c] = "raised"]
        /\ target' = target
    BY <1>3 DEF ProbeTimesOut, DeployTimesOut, GetNothing, TransferFails, Goto, runVars,
       callVars, buildVars
  <2>2. QED
    BY <1>1, <2>1, Moves DEF TypeOK
<1>4. CASE CompilerFails(c) \/ WriteBreaks(c)
  <2>1. UNCHANGED <<setup, callVars>> /\ BuildRaises(c) /\ pc[c] \in Before
    BY <1>4 DEF CompilerFails, WriteBreaks, runVars, callVars, Before, Nowhere
  <2>2. CASE pc' = [pc EXCEPT ![c] = "raised"] /\ target' = target
    BY <1>1, <2>1, <2>2, Moves DEF TypeOK
  <2>3. CASE Find(c, "imci")
    <3>1. PICK w \in {"stage", "build"} : pc' = [pc EXCEPT ![c] = w]
      BY <2>3 DEF Find, Goto
    <3>2. target' = [target EXCEPT ![c] = "imci"]
      BY <2>3 DEF Find
    <3>3. /\ target' \in [Calls -> Programs \cup {"none"}] /\ target'[c] # "none"
          /\ \A d \in Calls \ {c} : target'[d] = target[d]
      BY <1>1, <3>2 DEF TypeOK, Programs, InContainer
    <3>4. QED
      BY <2>1, <3>1, <3>3, Moves DEF Nowhere
  <2>4. QED
    BY <2>1, <2>2, <2>3 DEF BuildRaises, Goto
<1>5. CASE \/ CompileVe(c) \/ CompileHost(c) \/ MakeImci(c) \/ MakeMkl(c) \/ MakePrep(c)
           \/ MakeEnds(c) \/ CopyOut(c) \/ BuildEnds(c)
  <2>1. /\ UNCHANGED <<setup, callVars>> /\ target' = target
        /\ pc[c] \in {"build", "making", "made", "building"}
    BY <1>5 DEF CompileVe, CompileHost, MakeImci, MakeMkl, MakePrep, MakeEnds, CopyOut,
       BuildEnds, Make, WriteProgram, runVars, callVars
  <2>2. PICK w \in Nowhere : pc' = [pc EXCEPT ![c] = w]
    BY <1>5 DEF CompileVe, CompileHost, MakeImci, MakeMkl, MakePrep, MakeEnds, CopyOut,
       BuildEnds, Make, WriteProgram, Goto, Nowhere
  <2>3. pc[c] \in Before /\ (target'[c] # "none" \/ Kind(c) \in {"tiled", "numpy"})
    BY <1>1, <2>1 DEF HasTarget, Before, Nowhere
  <2>4. QED
    BY <1>1, <2>1, <2>2, <2>3, Moves DEF TypeOK
<1>6. QED
  BY <1>2, <1>3, <1>4, <1>5

(* What a whole kernel made of the call's own operands is its product.     *)
LEMMA WholeAgrees ==
  ASSUME TypeOK, NEW c \in Calls, NEW by \in KernelNames
  PROVE  Agrees(c, [of |-> c, by |-> by])
<1>1. Computed(by, setup[c], setup[c].threads) = Product(setup[c])
  <2>1. PICK p, t : p = setup[c] /\ t = setup[c].threads
    OBVIOUS
  <2>2. Extents(p) /\ t \in Nat \ {0}
    BY <2>1, KindIn
  <2>3. Computed(by, p, t) = Product(p)
    BY <2>2, KernelsAreProducts
  <2>4. QED
    BY <2>1, <2>3
<1>2. QED
  BY <1>1 DEF Agrees

LEMMA KernelNowIn ==
  ASSUME TypeOK, HasTarget, NEW c \in Calls, pc[c] \in Before \ {"start"}
  PROVE  KernelNow(c) \in KernelNames \cup {"torn"}
<1>1. CASE target[c] \in Programs /\ program[target[c]] # "whole"
  BY <1>1 DEF KernelNow
<1>2. CASE target[c] = "none"
  <2>1. Kind(c) \in {"tiled", "numpy"} /\ target[c] \notin Programs
    BY <1>2 DEF HasTarget, Programs, InContainer
  <2>2. KernelNow(c) = Kind(c)
    BY <1>2, <2>1 DEF KernelNow, InProcess
  <2>3. QED
    BY <2>1, <2>2 DEF KernelNames
<1>3. CASE target[c] \in Programs /\ program[target[c]] = "whole"
  <2>1. target[c] \in {"mkl", "imci", "prep", "ve", "host"} /\ target[c] # "none"
    BY <1>3 DEF Programs, InContainer
  <2>2. KernelNow(c) \in {"nlc", "avx512", "mkl", "prep", "imci", "pthread"}
    BY <1>3, <2>1 DEF KernelNow
  <2>3. QED
    BY <2>2 DEF KernelNames
<1>4. QED
  BY <1>1, <1>2, <1>3 DEF TypeOK

-----------------------------------------------------------------------------
(* A step of a call that has its files; nothing changes for another one    *)
(* that has them alone.                                                    *)
LEMMA StageVeInv == ASSUME Inv, NEW c \in Calls, StageVe(c) PROVE Inv'
<1> USE DEF Inv
<1>1. /\ UNCHANGED <<setup, target, callVars>> /\ pc' = [pc EXCEPT ![c] = "putting"]
      /\ pc[c] = "stage" /\ ~OnPhi(c)
  BY DEF StageVe, Goto, buildVars, runVars, callVars, OnPhi, Scales
<1>2. \A d \in Calls : pc'[d] = IF d = c THEN "putting" ELSE pc[d]
  BY <1>1 DEF TypeOK
<1>3. TypeOK'
  BY <1>1 DEF TypeOK, callVars, Before
<1>4. HasTarget' /\ RunsWhole'
  BY <1>1, <1>2, SameSetup DEF HasTarget, RunsWhole, callVars, Before, Nowhere
<1>5. OwnFiles'
  <2> SUFFICES ASSUME NEW d \in Calls, pc'[d] \in Staged, alone'[d]
               PROVE  Own(d)'
    BY DEF OwnFiles, Staged
  <2>1. CASE d = c
    <3>1. \A e \in Calls : ~Same(c, e)
      BY <1>1, OnlyPhi
    <3>2. run'[c] = "none"
      BY <1>1 DEF RunsWhole, Before, Nowhere, callVars
    <3>3. QED
      BY <1>1, <1>2, <2>1, <3>1, <3>2, SameSetup DEF Own
  <2>2. CASE d # c
    <3>1. pc'[d] = pc[d] /\ Own(d)
      BY <1>1, <1>2, <2>2 DEF OwnFiles, callVars
    <3>2. ~Same(d, c)
      BY <1>1, OnlyPhi
    <3>3. \A e \in Calls : Same(d, e)' => pc'[e] \notin Staged /\ ~Alive(e)'
      BY <1>1, <1>2, <3>1, <3>2, SameSetup DEF Own, Alive, callVars, Staged
    <3>4. QED
      BY <1>1, <3>1, <3>3, SameSetup DEF Own, Staged, callVars
  <2>3. QED
    BY <2>1, <2>2
<1>6. ReturnedIsProduct'
  BY <1>1, <1>2 DEF ReturnedIsProduct, Agrees, Kind, callVars
<1>7. QED
  BY <1>3, <1>4, <1>5, <1>6

LEMMA StagePhiInv == ASSUME Inv, NEW c \in Calls, StagePhi(c) PROVE Inv'
<1> USE DEF Inv
<1>1. /\ UNCHANGED <<setup, target, output, run, operands, got>>
      /\ pc' = [pc EXCEPT ![c] = "putting"] /\ pc[c] = "stage"
      /\ kernel' = [kernel EXCEPT ![c] = KernelNow(c)]
      /\ input' = [input EXCEPT ![Files(c)] = Nobody]
      /\ alone' = [d \in Calls |->
           IF d = c THEN ~ \E e \in Calls : Same(c, e) /\ (pc[e] \in Staged \/ Alive(e))
           ELSE alone[d] /\ ~(Same(c, d) /\ pc[d] \in Staged)]
  BY DEF StagePhi, Goto, buildVars
<1>2. \A d \in Calls : pc'[d] = IF d = c THEN "putting" ELSE pc[d]
  BY <1>1 DEF TypeOK
<1>3. KernelNow(c) \in KernelNames \cup {"torn"}
  BY <1>1, KernelNowIn DEF Before, Nowhere
<1>4. TypeOK'
  <2>1. alone' \in [Calls -> BOOLEAN]
    BY <1>1 DEF TypeOK
  <2>2. QED
    BY <1>1, <1>3, <2>1, FileIn DEF TypeOK, Before
<1>5. HasTarget'
  BY <1>1, <1>2, SameSetup DEF HasTarget, Before, Nowhere
<1>6. run[c] = "none"
  BY <1>1 DEF RunsWhole, Before, Nowhere
<1>7. RunsWhole'
  BY <1>1, <1>2, <1>6 DEF RunsWhole, TypeOK, Before, Nowhere, Running
<1>8. OwnFiles'
  <2> SUFFICES ASSUME NEW d \in Calls, pc'[d] \in Staged, alone'[d]
               PROVE  Own(d)'
    BY DEF OwnFiles, Staged
  <2>1. CASE d = c
    <3>1. \A e \in Calls : Same(c, e) => pc[e] \notin Staged /\ ~Alive(e)
      BY <1>1, <2>1
    <3>2. \A e \in Calls : Same(c, e) => e # c
      BY DEF Same
    <3>3. \A e \in Calls : Same(c, e)' => pc'[e] \notin Staged /\ ~Alive(e)'
      BY <1>1, <1>2, <3>1, <3>2, SameSetup DEF Alive, Staged
    <3>4. QED
      BY <1>1, <1>2, <1>6, <2>1, <3>3 DEF Own, Staged
  <2>2. CASE d # c
    <3>1. pc'[d] = pc[d] /\ alone[d] /\ ~Same(c, d)
      BY <1>1, <1>2, <2>2
    <3>2. Own(d) /\ Files(d) # Files(c)
      BY <2>2, <3>1 DEF OwnFiles, Same, Staged
    <3>3. \A e \in Calls : Same(d, e)' => pc'[e] \notin Staged /\ ~Alive(e)'
      <4>1. ~Same(d, c)
        BY <2>2, <3>1 DEF Same
      <4>2. QED
        BY <1>1, <1>2, <3>2, <4>1, SameSetup DEF Own, Alive, Staged
    <3>4. input'[Files(d)] = input[Files(d)] /\ kernel'[d] = kernel[d]
      BY <1>1, <2>2, <3>2, FileIn DEF TypeOK
    <3>5. QED
      BY <1>1, <3>1, <3>2, <3>3, <3>4, SameSetup DEF Own, Staged
  <2>3. QED
    BY <2>1, <2>2
<1>9. \A d \in Calls : pc'[d] = "returned" => pc[d] = "returned"
  BY <1>1, <1>2
<1>12. \A d \in Calls : d # c /\ alone'[d] => alone[d]
  BY <1>1, <1>2
<1>10. ReturnedIsProduct'
  BY <1>1, <1>2, <1>9, <1>12 DEF ReturnedIsProduct, Agrees, Kind
<1>11. QED
  BY <1>4, <1>5, <1>7, <1>8, <1>10

LEMMA FileStep ==
  ASSUME Inv, TypeOK', NEW c \in Calls, UNCHANGED <<setup, target, alone>>,
         \/ pc[c] \in Staged \/ Alive(c)
         \/ UNCHANGED <<input, output, run>> /\ pc'[c] \notin Staged,
         \A d \in Calls \ {c} : /\ pc'[d] = pc[d] /\ kernel'[d] = kernel[d]
                                /\ run'[d] = run[d] /\ operands'[d] = operands[d]
                                /\ got'[d] = got[d],
         \A f \in FileNames \ {Files(c)} : input'[f] = input[f] /\ output'[f] = output[f],
         pc'[c] \in Before => run'[c] = "none" /\ pc[c] \in Before \ {"start"},
         run'[c] \in Running => kernel'[c] \in KernelNames,
         pc'[c] = "returned" /\ (alone[c] \/ Kind(c) = "scale") => Agrees(c, got'[c]),
         pc'[c] \in Staged /\ alone[c] =>
           /\ pc[c] \in Staged
           /\ pc'[c] # "putting" => input'[Files(c)] = c
           /\ run'[c] \in {"computing", "writing", "done"} => operands'[c] = c
           /\ run'[c] = "done" => output'[Files(c)] = [of |-> c, by |-> kernel'[c]]
  PROVE  Inv'
<1> USE DEF Inv
<1>1. HasTarget'
  BY SameSetup DEF HasTarget, Before, Nowhere
<1>2. RunsWhole'
  BY DEF RunsWhole
<1>3. OwnFiles'
  <2> SUFFICES ASSUME NEW d \in Calls, pc'[d] \in Staged, alone'[d]
               PROVE  Own(d)'
    BY DEF OwnFiles, Staged
  <2>1. CASE d = c
    <3>1. Own(c)
      BY <2>1 DEF OwnFiles
    <3>2. \A e \in Calls : Same(c, e)' => pc'[e] \notin Staged /\ ~Alive(e)'
      <4>1. \A e \in Calls : Same(c, e) => e # c
        BY DEF Same
      <4>2. QED
        BY <3>1, <4>1, SameSetup DEF Own, Alive
    <3>3. QED
      BY <2>1, <3>2, SameSetup DEF Own, Staged
  <2>2. CASE d # c
    <3>1. pc'[d] = pc[d] /\ alone[d] /\ Own(d)
      BY <2>2 DEF OwnFiles
    <3>2. CASE pc[c] \in Staged \/ Alive(c)
      <4>1. ~Same(d, c) /\ Files(d) # Files(c)
        BY <2>2, <3>1, <3>2 DEF Own, Same
      <4>2. \A e \in Calls : Same(d, e)' => pc'[e] \notin Staged /\ ~Alive(e)'
        BY <3>1, <4>1, SameSetup DEF Own, Alive
      <4>3. input'[Files(d)] = input[Files(d)] /\ output'[Files(d)] = output[Files(d)]
        BY <4>1, FileIn
      <4>4. QED
        BY <2>2, <3>1, <4>2, <4>3, SameSetup DEF Own, Staged
    <3>3. CASE UNCHANGED <<input, output, run>> /\ pc'[c] \notin Staged
      <4>1. \A e \in Calls : Same(d, e)' => pc'[e] \notin Staged /\ ~Alive(e)'
        BY <3>1, <3>3, SameSetup DEF Own, Alive
      <4>2. QED
        BY <2>2, <3>1, <3>3, <4>1, SameSetup DEF Own, Staged
    <3>4. QED
      BY <3>2, <3>3
  <2>3. QED
    BY <2>1, <2>2
<1>4. ReturnedIsProduct'
  BY DEF ReturnedIsProduct, Agrees, Kind
<1>5. QED
  BY <1>1, <1>2, <1>3, <1>4

LEMMA PutEndsInv == ASSUME Inv, NEW c \in Calls, PutEnds(c) PROVE Inv'
<1>1. TypeOK /\ RunsWhole /\ OwnFiles /\ Files(c) \in FileNames
  BY FileIn DEF Inv
<1>2. /\ UNCHANGED <<setup, target, kernel, output, run, operands, got, alone>>
      /\ pc[c] = "putting" /\ pc' = [pc EXCEPT ![c] = "staged"]
      /\ input' = [input EXCEPT ![Files(c)] = c]
  BY DEF PutEnds, Goto, buildVars
<1>3. TypeOK'
  BY <1>1, <1>2 DEF TypeOK, Before
<1>4. run[c] = "none" /\ pc'[c] = "staged" /\ input'[Files(c)] = c
  BY <1>1, <1>2 DEF RunsWhole, Before, TypeOK
<1>5. \A d \in Calls \ {c} : pc'[d] = pc[d]
  BY <1>2 DEF TypeOK
<1>6. \A f \in FileNames \ {Files(c)} : input'[f] = input[f]
  BY <1>2 DEF TypeOK
<1>7. QED
  BY <1>2, <1>3, <1>4, <1>5, <1>6, FileStep DEF Staged, Before, Nowhere, Running

LEMMA DeployInv ==
  ASSUME Inv, NEW c \in Calls, Deploy(c) \/ DeployEnds(c)
  PROVE  Inv'
<1>1. TypeOK /\ RunsWhole /\ OwnFiles
  BY DEF Inv
<1>2. /\ UNCHANGED <<setup, target, kernel, input, output, run, operands, got, alone>>
      /\ pc[c] \in {"staged", "deploying"}
      /\ \E w \in {"deploying", "deployed"} : pc' = [pc EXCEPT ![c] = w]
  BY DEF Deploy, DeployEnds, Goto, buildVars
<1>3. TypeOK'
  BY <1>1, <1>2 DEF TypeOK, Before
<1>4. run[c] = "none" /\ pc'[c] \in {"deploying", "deployed"}
  BY <1>1, <1>2 DEF RunsWhole, Before, TypeOK
<1>5. \A d \in Calls \ {c} : pc'[d] = pc[d]
  BY <1>2 DEF TypeOK
<1>6. alone[c] => input[Files(c)] = c
  BY <1>1, <1>2 DEF OwnFiles, Own, Staged
<1>7. QED
  BY <1>2, <1>3, <1>4, <1>5, <1>6, FileStep DEF Staged, Before, Nowhere, Running

LEMMA LaunchInv ==
  ASSUME Inv, NEW c \in Calls, LaunchVe(c) \/ LaunchPhi(c)
  PROVE  Inv'
<1>1. TypeOK /\ HasTarget /\ RunsWhole /\ OwnFiles
  BY DEF Inv
<1>2. /\ UNCHANGED <<setup, target, input, output, operands, got, alone>>
      /\ pc[c] \in {"staged", "deployed"} /\ pc' = [pc EXCEPT ![c] = "waiting"]
      /\ run'[c] \in {"failed", "started"}
      /\ \E r \in {"failed", "started"} : run' = [run EXCEPT ![c] = r]
      /\ \E k \in KernelNames \cup {"torn"} : kernel' = [kernel EXCEPT ![c] = k]
      /\ run'[c] = "started" => kernel'[c] \in KernelNames
  <2>1. CASE LaunchVe(c)
    <3>1. KernelNow(c) \in KernelNames \cup {"torn"}
      BY <1>1, <2>1, KernelNowIn DEF LaunchVe, Before, Nowhere
    <3>2. QED
      BY <1>1, <2>1, <3>1 DEF LaunchVe, Goto, buildVars, TypeOK
  <2>2. CASE LaunchPhi(c)
    <3>1. kernel' = [kernel EXCEPT ![c] = kernel[c]] /\ kernel[c] \in KernelNames \cup {"torn"}
      BY <1>1, <2>2 DEF LaunchPhi, TypeOK
    <3>2. Loads(c) => kernel[c] \in KernelNames
      BY <3>1 DEF Loads, KernelNames
    <3>3. /\ UNCHANGED <<setup, target, kernel, input, output, operands, got, alone>>
          /\ pc[c] = "deployed" /\ pc' = [pc EXCEPT ![c] = "waiting"]
          /\ run' = [run EXCEPT ![c] = IF Loads(c) THEN "started" ELSE "failed"]
      BY <2>2 DEF LaunchPhi, Goto, buildVars
    <3>4. QED
      BY <1>1, <3>1, <3>2, <3>3 DEF TypeOK
  <2>3. QED
    BY <2>1, <2>2
<1>3. TypeOK'
  BY <1>1, <1>2 DEF TypeOK, Before, Running
<1>4. pc'[c] = "waiting"
  BY <1>1, <1>2 DEF TypeOK
<1>5. \A d \in Calls \ {c} : pc'[d] = pc[d] /\ kernel'[d] = kernel[d] /\ run'[d] = run[d]
  BY <1>1, <1>2 DEF TypeOK
<1>6. alone[c] => input[Files(c)] = c
  BY <1>1, <1>2 DEF OwnFiles, Own, Staged
<1>7. QED
  BY <1>2, <1>3, <1>4, <1>5, <1>6, FileStep DEF Staged, Before, Nowhere, Running

(* The process goes on whether or not the call still waits for it.         *)
LEMMA RunInv == ASSUME Inv, NEW c \in Calls, Run(c) PROVE Inv'
<1>1. TypeOK /\ RunsWhole /\ OwnFiles /\ ReturnedIsProduct /\ Files(c) \in FileNames
  BY FileIn DEF Inv
<1>2. /\ UNCHANGED <<setup, target, pc, kernel, input, got, alone>> /\ Alive(c)
  BY DEF Run, RunReads, RunOpens, RunWrites, RunFails, buildVars, Alive
<1>3. pc[c] \notin Before /\ kernel[c] \in KernelNames
  BY <1>1, <1>2 DEF RunsWhole, Alive, Running
<1>4. pc[c] = "returned" /\ (alone[c] \/ Kind(c) = "scale") => Agrees(c, got'[c])
  BY <1>1, <1>2 DEF ReturnedIsProduct
<1>5. pc[c] \in Staged /\ alone[c] =>
        input[Files(c)] = c /\ (run[c] \in {"computing", "writing", "done"} => operands[c] = c)
  BY <1>1, <1>3 DEF OwnFiles, Own, Before
<1>6. CASE RunReads(c)
  <2>1. /\ operands' = [operands EXCEPT ![c] = input[Files(c)]] /\ UNCHANGED output
        /\ \E r \in {"computing", "failed"} : run' = [run EXCEPT ![c] = r]
    BY <1>6 DEF RunReads
  <2>2. TypeOK'
    BY <1>1, <1>2, <2>1 DEF TypeOK, Running
  <2>3. /\ operands'[c] = input[Files(c)] /\ run'[c] \in {"computing", "failed"}
        /\ \A d \in Calls \ {c} : operands'[d] = operands[d] /\ run'[d] = run[d]
    BY <1>1, <2>1 DEF TypeOK
  <2>4. QED
    BY <1>2, <1>3, <1>4, <1>5, <2>1, <2>2, <2>3, FileStep
<1>7. CASE RunOpens(c)
  <2>1. /\ run[c] = "computing" /\ run' = [run EXCEPT ![c] = "writing"]
        /\ output' = [output EXCEPT ![Files(c)] = NoFile] /\ UNCHANGED operands
    BY <1>7 DEF RunOpens
  <2>2. TypeOK'
    BY <1>1, <1>2, <2>1 DEF TypeOK, Running, Outs, NoFile
  <2>3. /\ run'[c] = "writing"
        /\ \A d \in Calls \ {c} : run'[d] = run[d]
        /\ \A f \in FileNames \ {Files(c)} : output'[f] = output[f]
    BY <1>1, <2>1 DEF TypeOK
  <2>4. QED
    BY <1>2, <1>3, <1>4, <1>5, <2>1, <2>2, <2>3, FileStep
<1>8. CASE RunWrites(c)
  <2>1. /\ run[c] = "writing" /\ run' = [run EXCEPT ![c] = "done"]
        /\ output' = [output EXCEPT ![Files(c)] = [of |-> operands[c], by |-> kernel[c]]]
        /\ UNCHANGED operands
    BY <1>8 DEF RunWrites
  <2>2. TypeOK'
    BY <1>1, <1>2, <2>1 DEF TypeOK, Running, Outs
  <2>3. /\ run'[c] = "done" /\ output'[Files(c)] = [of |-> operands[c], by |-> kernel[c]]
        /\ \A d \in Calls \ {c} : run'[d] = run[d]
        /\ \A f \in FileNames \ {Files(c)} : output'[f] = output[f]
    BY <1>1, <2>1 DEF TypeOK
  <2>4. QED
    BY <1>2, <1>3, <1>4, <1>5, <2>1, <2>2, <2>3, FileStep
<1>9. CASE RunFails(c)
  <2>1. run' = [run EXCEPT ![c] = "failed"] /\ UNCHANGED <<output, operands>>
    BY <1>9 DEF RunFails
  <2>2. TypeOK'
    BY <1>1, <1>2, <2>1 DEF TypeOK
  <2>3. run'[c] = "failed" /\ \A d \in Calls \ {c} : run'[d] = run[d]
    BY <1>1, <2>1 DEF TypeOK
  <2>4. QED
    BY <1>2, <1>3, <1>4, <1>5, <2>1, <2>2, <2>3, FileStep DEF Running
<1>10. QED
  BY <1>6, <1>7, <1>8, <1>9 DEF Run

LEMMA TimesOutInv == ASSUME Inv, NEW c \in Calls, TimesOut(c) PROVE Inv'
<1>1. TypeOK /\ RunsWhole
  BY DEF Inv
<1>2. /\ UNCHANGED <<setup, target, kernel, input, output, operands, got, alone>>
      /\ pc[c] = "waiting" /\ pc' = [pc EXCEPT ![c] = "raised"]
      /\ run' = run \/ run' = [run EXCEPT ![c] = "failed"]
  BY DEF TimesOut, Goto, buildVars
<1>3. TypeOK'
  BY <1>1, <1>2 DEF TypeOK
<1>4. /\ pc'[c] = "raised"
      /\ run'[c] \in Running => kernel'[c] \in KernelNames
      /\ \A d \in Calls \ {c} : pc'[d] = pc[d] /\ run'[d] = run[d]
  BY <1>1, <1>2 DEF TypeOK, RunsWhole, Running
<1>5. QED
  BY <1>2, <1>3, <1>4, FileStep DEF Staged, Before, Nowhere

LEMMA GetInv == ASSUME Inv, NEW c \in Calls, Get(c) PROVE Inv'
<1>1. TypeOK /\ RunsWhole /\ OwnFiles /\ Files(c) \in FileNames
  BY FileIn DEF Inv
<1>2. PICK out \in Outs : out = output[Files(c)]
  BY <1>1 DEF TypeOK
<1>3. /\ UNCHANGED <<setup, target, kernel, input, output, run, operands, alone>>
      /\ pc[c] = "waiting" /\ run[c] = "done"
      /\ \/ Takes(c, out) /\ got' = [got EXCEPT ![c] = out] /\ pc' = [pc EXCEPT ![c] = "returned"]
         \/ got' = got /\ pc' = [pc EXCEPT ![c] = "raised"]
  BY <1>2 DEF Get, Succeeded, Goto, buildVars
<1>4. TypeOK'
  BY <1>1, <1>3 DEF TypeOK
<1>5. /\ pc'[c] \in {"returned", "raised"}
      /\ \A d \in Calls \ {c} : pc'[d] = pc[d] /\ got'[d] = got[d]
  BY <1>1, <1>3 DEF TypeOK
<1>6. pc'[c] = "returned" => got'[c] = out /\ Takes(c, out)
  BY <1>1, <1>3 DEF TypeOK
<1>7. alone[c] => Agrees(c, out)
  <2>1. alone[c] => out = [of |-> c, by |-> kernel[c]]
    BY <1>1, <1>2, <1>3 DEF OwnFiles, Own, Staged
  <2>2. kernel[c] \in KernelNames
    BY <1>1, <1>3 DEF RunsWhole, Running
  <2>3. QED
    BY <1>1, <2>1, <2>2, WholeAgrees
<1>8. Kind(c) = "scale" /\ Takes(c, out) => Agrees(c, out)
  BY DEF Takes
<1>9. pc'[c] = "returned" /\ (alone[c] \/ Kind(c) = "scale") => Agrees(c, got'[c])
  BY <1>6, <1>7, <1>8
<1>10. run'[c] \in Running => kernel'[c] \in KernelNames
  BY <1>1, <1>3 DEF RunsWhole
<1>11. QED
  BY <1>3, <1>4, <1>5, <1>9, <1>10, FileStep DEF Staged, Before, Nowhere

LEMMA InProcessInv ==
  ASSUME Inv, NEW c \in Calls, ScaleOnHost(c) \/ Call(c)
  PROVE  Inv'
<1>1. TypeOK /\ HasTarget /\ RunsWhole
  BY DEF Inv
<1>2. PICK by \in KernelNames :
        /\ UNCHANGED <<setup, target, input, output, run, operands, alone>>
        /\ \/ /\ pc' = [pc EXCEPT ![c] = "returned"]
              /\ got' = [got EXCEPT ![c] = [of |-> c, by |-> by]]
           \/ pc' = [pc EXCEPT ![c] = "raised"] /\ got' = got
        /\ \/ kernel' = kernel
           \/ /\ pc[c] = "stage"
              /\ \E k \in KernelNames \cup {"torn"} : kernel' = [kernel EXCEPT ![c] = k]
  <2>1. CASE ScaleOnHost(c)
    <3>1. "numpy" \in KernelNames
      BY DEF KernelNames
    <3>2. QED
      BY <2>1, <3>1 DEF ScaleOnHost, Goto, buildVars
  <2>2. CASE Call(c)
    <3>1. KernelNow(c) \in KernelNames \cup {"torn"} /\ pc[c] = "stage"
      BY <1>1, <2>2, KernelNowIn DEF Call, Before, Nowhere
    <3>2. CASE KernelNow(c) = "torn"
      <4>1. "numpy" \in KernelNames
        BY DEF KernelNames
      <4>2. QED
        BY <2>2, <3>1, <3>2, <4>1 DEF Call, Goto, buildVars
    <3>3. CASE KernelNow(c) # "torn"
      BY <2>2, <3>1, <3>3 DEF Call, Goto, buildVars
    <3>4. QED
      BY <3>2, <3>3
  <2>3. QED
    BY <2>1, <2>2
<1>3. TypeOK'
  BY <1>1, <1>2 DEF TypeOK, Outs
<1>4. /\ pc'[c] \in {"returned", "raised"}
      /\ \A d \in Calls \ {c} : pc'[d] = pc[d] /\ got'[d] = got[d] /\ kernel'[d] = kernel[d]
      /\ pc'[c] = "returned" => got'[c] = [of |-> c, by |-> by]
  BY <1>1, <1>2 DEF TypeOK
<1>5. Agrees(c, [of |-> c, by |-> by])
  BY <1>1, WholeAgrees
<1>6. run'[c] \in Running => kernel'[c] \in KernelNames
  BY <1>1, <1>2 DEF RunsWhole, Before, Nowhere, Running
<1>7. QED
  BY <1>2, <1>3, <1>4, <1>5, <1>6, FileStep DEF Staged, Before, Nowhere

LEMMA NextInv == Inv /\ [Next]_vars => Inv'
<1> SUFFICES ASSUME Inv, [Next]_vars PROVE Inv'
  OBVIOUS
<1>1. ASSUME UNCHANGED vars PROVE Inv'
  <2>1. UNCHANGED <<setup, target, pc, callVars>>
    BY <1>1 DEF vars, buildVars, runVars, callVars
  <2>2. TypeOK'
    BY <2>1 DEF Inv, TypeOK, callVars
  <2>3. HasTarget' /\ RunsWhole'
    BY <2>1, SameSetup DEF Inv, HasTarget, RunsWhole, callVars
  <2>4. OwnFiles'
    BY <2>1, SameSetup DEF Inv, OwnFiles, Own, Alive, callVars
  <2>5. ReturnedIsProduct'
    BY <2>1 DEF Inv, ReturnedIsProduct, Agrees, Kind, callVars
  <2>6. QED
    BY <2>2, <2>3, <2>4, <2>5 DEF Inv
<1>2. ASSUME NEW c \in Calls, Step(c) PROVE Inv'
  <2>1. CASE StageVe(c) \/ StagePhi(c) \/ PutEnds(c)
    BY <2>1, StageVeInv, StagePhiInv, PutEndsInv
  <2>2. CASE Deploy(c) \/ DeployEnds(c) \/ LaunchVe(c) \/ LaunchPhi(c)
    BY <2>2, DeployInv, LaunchInv
  <2>3. CASE Get(c) \/ TimesOut(c) \/ ScaleOnHost(c) \/ Call(c)
    BY <2>3, GetInv, TimesOutInv, InProcessInv
  <2>4. CASE \/ Begin(c) \/ ProbeTimesOut(c) \/ CompilerFails(c) \/ CompileVe(c)
             \/ CompileHost(c) \/ MakeImci(c) \/ MakeMkl(c) \/ MakePrep(c) \/ MakeEnds(c)
             \/ CopyOut(c) \/ BuildEnds(c) \/ WriteBreaks(c) \/ DeployTimesOut(c)
             \/ GetNothing(c) \/ TransferFails(c)
    BY <2>4, BuildSteps
  <2>5. QED
    BY <1>2, <2>1, <2>2, <2>3, <2>4 DEF Step
<1>3. ASSUME NEW c \in Calls, Run(c) PROVE Inv'
  BY <1>3, RunInv
<1>4. QED
  BY <1>1, <1>2, <1>3 DEF Next, Finished

(* Whatever the calls, their shapes and the faults: what a call returns is *)
(* the product of its own operands, on the VE and the host always, on the  *)
(* Phi when nobody else used its files or the caller looks at the status.  *)
THEOREM ReturnedIsOwnProduct == Spec => []ReturnedIsProduct
<1>1. Inv => ReturnedIsProduct
  BY DEF Inv
<1>2. QED
  BY InitInv, NextInv, <1>1, PTL DEF Spec
=============================================================================
