------------------------------ MODULE Kernels ------------------------------
(***************************************************************************)
(* The project's own GEMM loops: the AVX-512 kernel of the host            *)
(* (kernels/host/dgemm_avx512.c), the IMCI kernel and the pthread fallback *)
(* of the Phi (kernels/phi/dgemm_rect.c), the Phi's elementwise scaling    *)
(* (kernels/phi/prep_scale.c) and the tiled loop of host_dgemm.py.  A      *)
(* kernel's result is the number of times each product A[i, l] * B[l, j]   *)
(* was added to C[i, j]; a loop that runs past its row adds to the next.   *)
(***************************************************************************)
EXTENDS Partition

CONSTANTS
  Vec,     \* doubles in a vector register (8)
  Unroll,  \* vectors per step of the unrolled loop (4)
  Panel,   \* HOST_DGEMM_BK (256)
  Tile     \* the tile of host_blocked_dgemm (8)

ASSUME KernelAssumption ==
  /\ Vec \in Nat \ {0} /\ Unroll \in Nat \ {0}
  /\ Panel \in Nat \ {0} /\ Tile \in Nat \ {0}

Lesser(x, y) == IF x <= y THEN x ELSE y
CeilDiv(x, y) == (x + y - 1) \div y

(* for (p = 0; p < extent; p += step), the last part cut off at extent.    *)
Chunks(extent, step) ==
  {Span(p * step, Lesser((p + 1) * step, extent)) : p \in 0..(CeilDiv(extent, step) - 1)}

(* Variant: j <= n, the last step reaches past the row.                    *)
StopsPast(lo, n, step) == IF n <= lo THEN lo ELSE lo + step * CeilDiv(n - lo, step)

(* for (; j + step - 1 < n; j += step), from lo: where it stops.           *)
Stops(lo, n, step) == IF n <= lo THEN lo ELSE lo + step * ((n - lo) \div step)

(* The J loops over a row of n: unrolled vectors, vectors, and the rest    *)
(* one by one.  The Phi's rows are padded and have no rest.                *)
Pad(n) == Vec * CeilDiv(n, Vec)
Wide(n) == Span(0, Stops(0, n, Unroll * Vec))
Thin(n) == Span(Wide(n).hi, Stops(Wide(n).hi, n, Vec))
HostLoops(n) == {Wide(n), Thin(n), Span(Thin(n).hi, n)}
PhiLoops(n)  == {Wide(Pad(n)), Thin(Pad(n))}

(* The steps of the loops, for row r of C with the given pitch, that write *)
(* to the address of C[i, j]: a step beyond the row's end meets the next.  *)
Writes(rows, loops, pitch, i, j) ==
  {w \in rows \X loops \X (0..(2 * pitch)) :
     In(w[3], w[2]) /\ w[1] * pitch + w[3] = i * pitch + j}

HostKernel(p) ==
  [x \in Cells(p) |->
     Cardinality({s \in Chunks(p.k, Panel) : In(x[3], s)} \X
                 Writes(0..(p.m - 1), HostLoops(p.n), p.n, x[1], x[2]))]

(* On padded copies of B and C; C is packed again.                         *)
ImciKernel(p) ==
  [x \in Cells(p) |->
     Cardinality(Writes(0..(p.m - 1), PhiLoops(p.n), Pad(p.n), x[1], x[2]))]

(* dgemm_pthread: never more threads than rows; a thread whose first row   *)
(* is past the end has none.                                               *)
Threads(m, threads) == Lesser(threads, m)
ThreadRows(m, t, threads) ==
  LET chunk == CeilDiv(m, Threads(m, threads))
  IN  Span(t * chunk, Lesser((t + 1) * chunk, m))
PthreadKernel(p, threads) ==
  [x \in Cells(p) |->
     Cardinality({t \in 0..(Threads(p.m, threads) - 1) :
                    In(x[1], ThreadRows(p.m, t, threads))})]

TileKernel(p) ==
  [x \in Cells(p) |->
     Cardinality({b \in Chunks(p.m, Tile) \X Chunks(p.n, Tile) \X Chunks(p.k, Tile) :
                    In(x[1], b[1]) /\ In(x[2], b[2]) /\ In(x[3], b[3])})]

(* alpha * A + beta, of an m x n matrix (k = 1): each element once, on     *)
(* padded copies unless the rows are whole vectors.                        *)
PrepKernel(p) ==
  [x \in Cells(p) |->
     Cardinality(Writes(0..(p.m - 1), {Span(0, Stops(0, Pad(p.n), Vec))}, Pad(p.n),
                        x[1], x[2]))]

(* cblas_dgemm of NLC or MKL and numpy's are taken at their word.          *)
Computed(kernel, p, threads) ==
  CASE kernel = "avx512"  -> HostKernel(p)
    [] kernel = "tiled"   -> TileKernel(p)
    [] kernel = "imci"    -> ImciKernel(p)
    [] kernel = "pthread" -> PthreadKernel(p, threads)
    [] kernel = "prep"    -> PrepKernel(p)
    [] kernel \in {"mkl", "nlc", "numpy"} -> Product(p)
=============================================================================
