----------------------------- MODULE LatencySums -----------------------------
(***************************************************************************)
(* Latency: the histogram holds every exit once, and the lines printed say *)
(* what the durations were.                                                *)
(***************************************************************************)
EXTENDS LatencyProofs, SumProofs

LEMMA Pow2Sum ==
  ASSUME NEW n \in Nat, NEW r \in Nat PROVE Pow2[r + n] = Pow2[r] * Pow2[n]
<1> DEFINE H == {i \in Nat : Pow2[i + n] = Pow2[i] * Pow2[n]}
<1>1. 0 \in H
  <2>1. Pow2[n] \in Nat /\ Pow2[0] = 1 /\ 0 + n = n
    BY Pow2Step
  <2> QED BY <2>1
<1>2. ASSUME NEW i \in Nat, i \in H PROVE i + 1 \in H
  <2>1. PICK x, y \in Nat : x = Pow2[i] /\ y = Pow2[n] /\ Pow2[i + n] = x * y
    BY <1>2, Pow2Step
  <2>2. Pow2[i + 1] = 2 * x
    BY <2>1, Pow2Step
  <2>3. Pow2[(i + 1) + n] = 2 * Pow2[i + n]
    <3>1. i + n \in Nat /\ (i + n) + 1 = (i + 1) + n
      OBVIOUS
    <3>2. Pow2[(i + n) + 1] = 2 * Pow2[i + n]
      BY <3>1, Pow2Step
    <3> QED BY <3>1, <3>2
  <2>4. 2 * (x * y) = (2 * x) * y
    OBVIOUS
  <2> QED BY <2>1, <2>2, <2>3, <2>4
<1> HIDE DEF H
<1>3. r \in H
  BY <1>1, <1>2, Inductive
<1> QED BY <1>3 DEF H

LEMMA DivideLe ==
  ASSUME NEW q \in Nat, NEW x \in Nat \ {0}, NEW v \in Nat
  PROVE  v \div x \in Nat /\ (q * x <= v <=> q <= v \div x)
<1>1. PICK d \in Nat, m \in Nat : d = v \div x /\ v = x * d + m /\ m < x
  <2>1. v \div x \in Nat
    OBVIOUS
  <2>2. v % x \in 0..(x - 1)
    OBVIOUS
  <2>3. v = x * (v \div x) + (v % x)
    OBVIOUS
  <2> QED BY <2>1, <2>2, <2>3
<1>2. q <= d => q * x <= d * x
  OBVIOUS
<1>3. d + 1 <= q => (d + 1) * x <= q * x
  OBVIOUS
<1>4. (d + 1) * x = x * d + x /\ d * x = x * d /\ x * d \in Nat /\ q * x \in Nat
  OBVIOUS
<1>5. q <= d \/ d + 1 <= q
  OBVIOUS
<1> QED BY <1>1, <1>2, <1>3, <1>4, <1>5

(* Of the powers of two below the m-th, v has reached those up to the k-th. *)
Placed(v, m, k) == k \in 0..(m - 1) /\ \A r \in 1..(m - 1) : Pow2[r] <= v <=> r <= k

(* A step of the cascade halves what is left to be placed.                 *)
LEMMA Cascade ==
  ASSUME NEW v \in Nat, NEW n \in Nat \ {0}, NEW k, Placed(Shifted(v, n), n, k)
  PROVE  Shifted(v, n) \in Nat /\ Placed(v, n + n, Found(v, n) + k)
<1>1. k \in 0..(n - 1) /\ \A r \in 1..(n - 1) : Pow2[r] <= Shifted(v, n) <=> r <= k
  BY DEF Placed
<1>2. PICK x \in Nat \ {0} : x = Pow2[n]
  BY Pow2Step
<1>3. CASE Reaches(v, n)
  <2>1. Shifted(v, n) = v \div x /\ Found(v, n) = n /\ x <= v
    BY <1>2, <1>3 DEF Shifted, Found, Reaches
  <2>2. ASSUME NEW r \in 1..(n + n - 1) PROVE Pow2[r] <= v <=> r <= n + k
    <3>1. CASE r <= n
      <4>1. Pow2[r] <= x /\ Pow2[r] \in Nat
        BY <1>2, <3>1, Pow2Grows, Pow2Step
      <4> QED BY <1>1, <2>1, <3>1, <4>1
    <3>2. CASE r > n
      <4>1. PICK q \in 1..(n - 1) : q = r - n /\ q + n = r
        BY <3>2
      <4>2. PICK y \in Nat : y = Pow2[q]
        BY Pow2Step
      <4>3. Pow2[r] = y * x
        BY <1>2, <4>1, <4>2, Pow2Sum
      <4>4. y * x <= v <=> y <= v \div x
        BY DivideLe
      <4>5. y <= v \div x <=> q <= k
        BY <1>1, <2>1, <4>2
      <4> QED BY <1>1, <4>1, <4>3, <4>4, <4>5
    <3> QED BY <3>1, <3>2
  <2>3. n + k \in 0..(n + n - 1)
    BY <1>1
  <2>4. v \div x \in Nat
    BY DivideLe
  <2> QED BY <2>1, <2>2, <2>3, <2>4 DEF Placed
<1>4. CASE ~Reaches(v, n)
  <2>1. Shifted(v, n) = v /\ Found(v, n) = 0
    BY <1>4 DEF Shifted, Found
  <2>2. v < x
    <3>1. n < x
      BY <1>2, Pow2Grows
    <3> QED BY <1>2, <1>4, <3>1 DEF Reaches
  <2>3. ASSUME NEW r \in 1..(n + n - 1) PROVE Pow2[r] <= v <=> r <= k
    <3>1. CASE r <= n - 1
      BY <1>1, <2>1, <3>1
    <3>2. CASE r >= n
      <4>1. x <= Pow2[r] /\ Pow2[r] \in Nat
        BY <1>2, <3>2, Pow2Grows, Pow2Step
      <4> QED BY <1>1, <2>2, <3>2, <4>1
    <3> QED BY <3>1, <3>2
  <2>4. k \in 0..(n + n - 1) /\ 0 + k = k
    BY <1>1
  <2> QED BY <2>1, <2>3, <2>4 DEF Placed
<1> QED BY <1>3, <1>4

LEMMA ShiftedType ==
  ASSUME NEW v \in Nat, NEW n \in Nat PROVE Shifted(v, n) \in Nat
BY Pow2Step, DivideLe DEF Shifted

LEMMA Log2SlotType ==
  ASSUME NEW v \in Nat
  PROVE  /\ Log2Slot(v) \in 0..63
         /\ \A r \in 1..63 : Pow2[r] <= v <=> r <= Log2Slot(v)
<1>1. PICK a \in Nat : a = Shifted(v, 32)
  BY ShiftedType
<1>2. PICK b \in Nat : b = Shifted(a, 16)
  BY ShiftedType
<1>3. PICK c \in Nat : c = Shifted(b, 8)
  BY ShiftedType
<1>4. PICK d \in Nat : d = Shifted(c, 4)
  BY ShiftedType
<1>5. PICK e \in Nat : e = Shifted(d, 2)
  BY ShiftedType
<1>6. PICK z, y, x, w, u, t \in Nat :
        /\ z = Found(v, 32) /\ y = Found(a, 16) /\ x = Found(b, 8)
        /\ w = Found(c, 4) /\ u = Found(d, 2) /\ t = Found(e, 1)
  <2>1. \A i, n \in Nat : Found(i, n) \in Nat
    BY DEF Found
  <2> QED BY <2>1
<1>7. Placed(Shifted(e, 1), 1, 0)
  BY DEF Placed
<1>8. Placed(e, 1 + 1, t + 0)
  BY <1>6, <1>7, Cascade
<1>9. Placed(d, 2 + 2, u + t)
  BY <1>5, <1>6, <1>8, Cascade
<1>10. Placed(c, 4 + 4, w + (u + t))
  BY <1>4, <1>6, <1>9, Cascade
<1>11. Placed(b, 8 + 8, x + (w + (u + t)))
  BY <1>3, <1>6, <1>10, Cascade
<1>12. Placed(a, 16 + 16, y + (x + (w + (u + t))))
  BY <1>2, <1>6, <1>11, Cascade
<1>13. Placed(v, 32 + 32, z + (y + (x + (w + (u + t)))))
  BY <1>1, <1>6, <1>12, Cascade
<1>14. Log2Slot(v) = z + y + x + w + u + t
  BY <1>1, <1>2, <1>3, <1>4, <1>5, <1>6 DEF Log2Slot
<1>15. Log2Slot(v) = z + (y + (x + (w + (u + t))))
  BY <1>6, <1>14
<1> QED BY <1>13, <1>15 DEF Placed

(* The shifts of log2_slot compute the logarithm, rounded down, of every   *)
(* 64-bit value but 0 (hist.rs: the test c_slot_matches_floor_log2 tries a *)
(* Rust copy of the cascade on 1 to 10000).                                *)
THEOREM SlotIsFloorLog2 ==
  ASSUME NEW v \in Nat \ {0}, v < Pow2[64]
  PROVE  Pow2[Log2Slot(v)] <= v /\ v < Pow2[Log2Slot(v) + 1]
<1>1. PICK n \in 0..63 : n = Log2Slot(v) /\ \A r \in 1..63 : Pow2[r] <= v <=> r <= n
  BY Log2SlotType
<1>2. Pow2[n] <= v
  <2>1. CASE n = 0
    BY <2>1, Pow2Step
  <2>2. CASE n # 0
    BY <1>1, <2>2
  <2> QED BY <2>1, <2>2
<1>3. v < Pow2[n + 1]
  <2>1. CASE n = 63
    BY <2>1
  <2>2. CASE n # 63
    <3>1. n + 1 \in 1..63 /\ ~(n + 1 <= n) /\ Pow2[n + 1] \in Nat
      BY <2>2, Pow2Step
    <3> QED BY <1>1, <3>1
  <2> QED BY <2>1, <2>2
<1> QED BY <1>1, <1>2, <1>3

-----------------------------------------------------------------------------
(* The parts of Conserved.                                                 *)

Flying(k, slot) == {t \in At(k, {"slot"}) : Slot(Delta(t)) = slot}
Timing(k) == At(k, {"slot", "sum"})
Lasting(slot) == {d \in 0..MaxTime : Slot(d) = slot}
Deltas == [t \in Threads |-> Delta(t)]
Weighted(k) == [d \in 0..MaxTime |-> d * began[k][d]]

BucketKept(k, slot) ==
  hist[CellOf(k, slot)] + Cardinality(Flying(k, slot)) = SumOver(began[k], Lasting(slot))

SumKept(k) ==
  hist[SumCell(k)] + SumOver(Deltas, Timing(k)) = SumOver(Weighted(k), 0..MaxTime)

Kept(k) == SumKept(k) /\ \A slot \in Slots : BucketKept(k, slot)

LEMMA ConservedParts == Conserved <=> \A k \in Syscalls : Kept(k)
BY DEF Conserved, Kept, SumKept, BucketKept, Flying, Timing, Lasting, Deltas, Weighted, Slots,
   Samples

LEMMA SumsType ==
  ASSUME TInv, NEW k \in Syscalls
  PROVE  /\ IsFiniteSet(0..MaxTime) /\ IsFiniteSet(Timing(k))
         /\ Timing(k) \subseteq Threads
         /\ \A d \in 0..MaxTime : began[k][d] \in Nat /\ Weighted(k)[d] \in Nat
         /\ \A t \in Threads : Deltas[t] \in Nat
         /\ SumOver(Deltas, Timing(k)) \in Nat /\ SumOver(Weighted(k), 0..MaxTime) \in Nat
         /\ \A slot \in Slots :
              /\ IsFiniteSet(Flying(k, slot)) /\ Cardinality(Flying(k, slot)) \in Nat
              /\ IsFiniteSet(Lasting(slot)) /\ SumOver(began[k], Lasting(slot)) \in Nat
<1>0. MaxTime \in Nat /\ IsFiniteSet(Threads)
  BY LatencyAssumption
<1>1. IsFiniteSet(0..MaxTime)
  BY <1>0, FS_Interval
<1>2. Timing(k) \subseteq Threads /\ IsFiniteSet(Timing(k))
  BY <1>0, FS_Subset DEF Timing, At
<1>3. ASSUME NEW d \in 0..MaxTime PROVE began[k][d] \in Nat /\ Weighted(k)[d] \in Nat
  <2>1. began[k][d] \in Nat /\ d \in Nat
    BY <1>0 DEF TInv, TypeOK
  <2>2. Weighted(k)[d] = d * began[k][d]
    BY DEF Weighted
  <2>3. \A m, n \in Nat : m * n \in Nat
    OBVIOUS
  <2> QED BY <2>1, <2>2, <2>3
<1>4. \A t \in Threads : Deltas[t] \in Nat
  BY <1>0, LocalType DEF Deltas
<1>5. SumOver(Deltas, Timing(k)) \in Nat /\ SumOver(Weighted(k), 0..MaxTime) \in Nat
  BY <1>1, <1>2, <1>3, <1>4, SumType
<1>6. ASSUME NEW slot \in Slots
      PROVE  /\ IsFiniteSet(Flying(k, slot)) /\ Cardinality(Flying(k, slot)) \in Nat
             /\ IsFiniteSet(Lasting(slot)) /\ SumOver(began[k], Lasting(slot)) \in Nat
  <2>1. IsFiniteSet(Flying(k, slot)) /\ IsFiniteSet(Lasting(slot))
    <3>1. Flying(k, slot) \subseteq Threads /\ Lasting(slot) \subseteq 0..MaxTime
      BY DEF Flying, At, Lasting
    <3> QED BY <1>0, <1>1, <3>1, FS_Subset
  <2>2. SumOver(began[k], Lasting(slot)) \in Nat
    BY <1>3, <2>1, SumType DEF Lasting
  <2> QED BY <2>1, <2>2, FS_CardinalityType
<1> QED BY <1>1, <1>2, <1>3, <1>4, <1>5, <1>6

-----------------------------------------------------------------------------
(* The steps of the threads.                                               *)

LEMMA CellInjective ==
  ASSUME NEW j \in Syscalls, NEW k \in Syscalls,
         NEW a \in 0..(HIST_SLOTS + 1), NEW b \in 0..(HIST_SLOTS + 1)
  PROVE  CellOf(j, a) = CellOf(k, b) => j = k /\ a = b
<1>1. HIST_SLOTS \in Nat /\ k \in Nat /\ j \in Nat
  BY LatencyAssumption, HistogramAssumption DEF Syscalls
<1> DEFINE L == HIST_SLOTS + 2
<1>2. \A m, n \in Nat, l \in Nat : m < n => m * l + l <= n * l
  <2> SUFFICES ASSUME NEW m \in Nat, NEW n \in Nat, NEW l \in Nat, m < n
               PROVE  m * l + l <= n * l
    OBVIOUS
  <2>1. (m + 1) * l = m * l + l /\ (m + 1) * l <= n * l
    OBVIOUS
  <2> QED BY <2>1
<1>3. k * L \in Nat /\ j * L \in Nat
  BY <1>1
<1>4. CASE j < k
  BY <1>1, <1>2, <1>3, <1>4 DEF CellOf, LATENCY_SLOTS
<1>5. CASE k < j
  BY <1>1, <1>2, <1>3, <1>5 DEF CellOf, LATENCY_SLOTS
<1>6. CASE k = j
  BY <1>1, <1>3, <1>6 DEF CellOf, LATENCY_SLOTS
<1> QED BY <1>1, <1>4, <1>5, <1>6

(* A step changes nothing for a syscall whose cells and counts it leaves   *)
(* alone, and to whose additions its thread does not come or go.           *)
LEMMA Elsewhere ==
  ASSUME TInv, NEW t \in Threads, NEW next, NEW locals, Goto(t, next, locals),
         NEW k \in Syscalls, Kept(k),
         \A slot \in 0..HIST_SLOTS : hist'[CellOf(k, slot)] = hist[CellOf(k, slot)],
         began'[k] = began[k],
         Sys(t) # k \/ pc[t] \notin {"slot", "sum"},
         locals.sys # k \/ next \notin {"slot", "sum"}
  PROVE  Kept(k)'
<1>1. /\ pc'[t] = next /\ local'[t] = locals
      /\ \A u \in Threads \ {t} : pc'[u] = pc[u] /\ local'[u] = local[u]
  BY OthersStay
<1>2. t \notin Timing(k) /\ t \notin Timing(k)'
  BY <1>1 DEF Timing, At, Sys
<1>3. Timing(k)' = Timing(k) /\ \A u \in Timing(k) : Delta(u)' = Delta(u)
  BY <1>1, <1>2 DEF Timing, At, Sys, Delta
<1>4. \A slot : Flying(k, slot)' = Flying(k, slot)
  BY <1>1, <1>2 DEF Flying, Timing, At, Sys, Delta, Slot
<1>5. SumOver(Deltas', Timing(k)) = SumOver(Deltas, Timing(k))
  <2>1. \A u \in Timing(k) : Deltas'[u] = Deltas[u] /\ Deltas[u] \in Nat
    BY <1>3, SumsType DEF Deltas
  <2> QED BY <2>1, SumsType, SumSame
<1>6. Weighted(k)' = Weighted(k)
  BY DEF Weighted
<1>7. hist'[SumCell(k)] = hist[SumCell(k)]
  BY HistogramAssumption DEF SumCell
<1>8. SumKept(k)'
  BY <1>3, <1>5, <1>6, <1>7 DEF SumKept, SumCell, CellOf, LATENCY_SLOTS, Kept
<1>9. ASSUME NEW slot \in Slots PROVE BucketKept(k, slot)'
  <2>1. hist'[CellOf(k, slot)] = hist[CellOf(k, slot)]
    BY HistogramAssumption DEF Slots
  <2> QED BY <1>4, <2>1 DEF Kept, BucketKept, CellOf, LATENCY_SLOTS, Lasting
<1> QED BY <1>8, <1>9 DEF Kept, Slots

LEMMA ExitKept ==
  ASSUME TInv, NEW t \in Threads, SysExit(t), NEW k \in Syscalls, Sys(t) = k, Kept(k)
  PROVE  Kept(k)'
<1>1. PICK e \in 0..MaxTime : e = Elapsed(t) /\ e \in Nat
  <2>1. start[t] \in 0..now /\ now \in 0..MaxTime /\ MaxTime \in Nat
    BY LatencyAssumption DEF SysExit, TInv, TypeOK
  <2>2. now - start[t] \in 0..MaxTime
    BY <2>1
  <2> QED BY <2>1, <2>2 DEF Elapsed
<1>2. /\ pc[t] = "inside" /\ pc'[t] = "slot" /\ local'[t] = [local[t] EXCEPT !.delta = e]
      /\ hist' = hist
      /\ \A u \in Threads \ {t} : pc'[u] = pc[u] /\ local'[u] = local[u]
  BY <1>1, OthersStay DEF SysExit
<1>3. Sys(t)' = k /\ Delta(t)' = e
  BY <1>2, LocalType DEF Sys, Delta, Locals
<1>4. /\ \A d \in 0..MaxTime : began[k][d] \in Nat /\ began'[k][d] \in Nat
      /\ \A d \in 0..MaxTime : d # e => began'[k][d] = began[k][d]
      /\ began'[k][e] = began[k][e] + 1
  <2>1. began[k] \in [0..MaxTime -> Nat] /\ began' = [began EXCEPT ![k][e] = began[k][e] + 1]
    BY <1>1 DEF SysExit, TInv, TypeOK
  <2>2. began'[k] = [began[k] EXCEPT ![e] = began[k][e] + 1]
    BY <2>1 DEF TInv, TypeOK
  <2>3. \A d \in 0..MaxTime : began[k][d] \in Nat
    BY <2>1
  <2>4. \A d \in 0..MaxTime : d # e => began'[k][d] = began[k][d]
    BY <2>1, <2>2
  <2>5. began'[k][e] = began[k][e] + 1
    BY <2>1, <2>2
  <2> QED BY <2>3, <2>4, <2>5
<1>5. SumKept(k)'
  <2>1. t \notin Timing(k) /\ Timing(k)' = Timing(k) \cup {t}
    BY <1>2, <1>3 DEF Timing, At, Sys
  <2>2. \A u \in Timing(k) : Deltas'[u] = Deltas[u] /\ Deltas[u] \in Nat
    BY <1>2, <2>1, SumsType DEF Deltas, Delta
  <2>3. Deltas'[t] = e
    BY <1>3 DEF Deltas
  <2>4. SumOver(Deltas', Timing(k)') = e + SumOver(Deltas, Timing(k))
    <3>1. SumOver(Deltas', Timing(k)) = SumOver(Deltas, Timing(k))
      BY <2>2, SumsType, SumSame
    <3>2. \A u \in Timing(k) \cup {t} : Deltas'[u] \in Nat
      BY <1>1, <2>2, <2>3
    <3>3. IsFiniteSet(Timing(k))
      BY SumsType
    <3> QED BY <2>1, <2>3, <3>1, <3>2, <3>3, SumAdd
  <2>5. SumOver(Weighted(k)', 0..MaxTime) = SumOver(Weighted(k), 0..MaxTime) + e
    <3>1. ASSUME NEW d \in 0..MaxTime
          PROVE  /\ Weighted(k)[d] = d * began[k][d] /\ Weighted(k)'[d] = d * began'[k][d]
                 /\ Weighted(k)[d] \in Nat /\ Weighted(k)'[d] \in Nat
      <4>1. Weighted(k)[d] = d * began[k][d] /\ Weighted(k)'[d] = d * began'[k][d]
        BY DEF Weighted
      <4>2. d \in Nat /\ began[k][d] \in Nat /\ began'[k][d] \in Nat
        BY <1>4, LatencyAssumption
      <4>3. \A m, n \in Nat : m * n \in Nat
        OBVIOUS
      <4> QED BY <4>1, <4>2, <4>3
    <3>2. Weighted(k)'[e] = Weighted(k)[e] + e
      <4>1. \A m, n \in Nat : m * (n + 1) = m * n + m
        OBVIOUS
      <4>2. began'[k][e] = began[k][e] + 1 /\ began[k][e] \in Nat
        BY <1>1, <1>4
      <4>3. e * (began[k][e] + 1) = e * began[k][e] + e
        BY <1>1, <4>1, <4>2
      <4> QED BY <3>1, <4>2, <4>3
    <3>3. \A d \in 0..MaxTime : d # e => Weighted(k)'[d] = Weighted(k)[d]
      BY <1>4, <3>1
    <3>4. SumOver(Weighted(k)', 0..MaxTime) + Weighted(k)[e]
            = SumOver(Weighted(k), 0..MaxTime) + Weighted(k)'[e]
      <4>1. PICK f, g, D, c : f = Weighted(k) /\ g = Weighted(k)' /\ D = 0..MaxTime /\ c = e
        OBVIOUS
      <4>2. c \in D /\ IsFiniteSet(D)
        BY <1>1, <4>1, SumsType
      <4>3. \A d \in D : f[d] \in Nat /\ g[d] \in Nat
        BY <3>1, <4>1
      <4>4. \A d \in D : d # c => g[d] = f[d]
        BY <3>3, <4>1
      <4>5. SumOver(g, D) + f[c] = SumOver(f, D) + g[c]
        BY <4>2, <4>3, <4>4, SumChange
      <4> QED BY <4>1, <4>5
    <3>5. SumOver(Weighted(k)', 0..MaxTime) \in Nat
      BY <3>1, SumsType, SumType
    <3>6. SumOver(Weighted(k), 0..MaxTime) \in Nat /\ Weighted(k)[e] \in Nat
      BY <3>1, SumsType
    <3> QED BY <1>1, <3>2, <3>4, <3>5, <3>6
  <2>6. hist[SumCell(k)] \in Nat
    BY CellType, HistogramAssumption DEF SumCell, TInv, TypeOK
  <2>7. SumCell(k)' = SumCell(k)
    BY DEF SumCell, CellOf, LATENCY_SLOTS
  <2>8. hist[SumCell(k)] + SumOver(Deltas, Timing(k)) = SumOver(Weighted(k), 0..MaxTime)
    BY DEF Kept, SumKept
  <2>9. SumOver(Deltas, Timing(k)) \in Nat
    BY SumsType
  <2>10. hist[SumCell(k)] + (e + SumOver(Deltas, Timing(k))) = SumOver(Weighted(k), 0..MaxTime) + e
    BY <1>1, <2>6, <2>8, <2>9
  <2> QED BY <1>2, <2>4, <2>5, <2>7, <2>10 DEF SumKept
<1>6. ASSUME NEW slot \in Slots PROVE BucketKept(k, slot)'
  <2>1. hist[CellOf(k, slot)] \in Nat /\ (hist[CellOf(k, slot)])' = hist[CellOf(k, slot)]
    <3>1. CellOf(k, slot) \in Cells
      BY CellType, HistogramAssumption DEF Slots
    <3> QED BY <1>2, <3>1 DEF TInv, TypeOK, CellOf, LATENCY_SLOTS
  <2>2. /\ Cardinality(Flying(k, slot)) \in Nat /\ SumOver(began[k], Lasting(slot)) \in Nat
        /\ hist[CellOf(k, slot)] + Cardinality(Flying(k, slot)) = SumOver(began[k], Lasting(slot))
    BY SumsType DEF Kept, BucketKept
  <2>3. Lasting(slot)' = Lasting(slot) /\ Lasting(slot) \subseteq 0..MaxTime
    BY DEF Lasting
  <2>4. \A u \in Threads \ {t} : u \in Flying(k, slot)' <=> u \in Flying(k, slot)
    BY <1>2 DEF Flying, At, Sys, Delta
  <2>5. t \notin Flying(k, slot) /\ (t \in Flying(k, slot)' <=> Slot(e) = slot)
    BY <1>2, <1>3 DEF Flying, At
  <2>6. Flying(k, slot) \subseteq Threads /\ Flying(k, slot)' \subseteq Threads
    BY DEF Flying, At
  <2>7. CASE Slot(e) = slot
    <3>1. Cardinality(Flying(k, slot)') = Cardinality(Flying(k, slot)) + 1
      <4>1. Flying(k, slot)' = Flying(k, slot) \cup {t}
        BY <2>4, <2>5, <2>6, <2>7
      <4> QED BY <2>5, <4>1, SumsType, FS_AddElement
    <3>2. SumOver(began'[k], Lasting(slot)) = SumOver(began[k], Lasting(slot)) + 1
      <4>1. e \in Lasting(slot)
        BY <2>7 DEF Lasting
      <4>2. \A d \in Lasting(slot) : began[k][d] \in Nat /\ began'[k][d] \in Nat
        BY <1>4, <2>3
      <4>3. \A d \in Lasting(slot) : d # e => began'[k][d] = began[k][d]
        BY <1>4, <2>3
      <4>4. SumOver(began'[k], Lasting(slot)) + began[k][e]
              = SumOver(began[k], Lasting(slot)) + began'[k][e]
        <5>1. PICK f, g, D, c : f = began[k] /\ g = began'[k] /\ D = Lasting(slot) /\ c = e
          OBVIOUS
        <5>2. c \in D /\ IsFiniteSet(D)
          BY <4>1, <5>1, SumsType
        <5>3. \A d \in D : f[d] \in Nat /\ g[d] \in Nat
          BY <4>2, <5>1
        <5>4. \A d \in D : d # c => g[d] = f[d]
          BY <4>3, <5>1
        <5>5. SumOver(g, D) + f[c] = SumOver(f, D) + g[c]
          BY <5>2, <5>3, <5>4, SumChange
        <5> QED BY <5>1, <5>5
      <4>5. SumOver(began'[k], Lasting(slot)) \in Nat /\ began'[k][e] = began[k][e] + 1
        BY <1>4, <4>2, SumsType, SumType
      <4> QED BY <2>2, <4>1, <4>2, <4>4, <4>5
    <3> QED BY <2>1, <2>2, <2>3, <3>1, <3>2 DEF BucketKept
  <2>8. CASE Slot(e) # slot
    <3>1. Flying(k, slot)' = Flying(k, slot)
      BY <2>4, <2>5, <2>6, <2>8
    <3>2. SumOver(began'[k], Lasting(slot)) = SumOver(began[k], Lasting(slot))
      <4>1. \A d \in Lasting(slot) : began[k][d] \in Nat /\ began'[k][d] = began[k][d]
        BY <1>4, <2>8 DEF Lasting
      <4> QED BY <4>1, SumsType, SumSame
    <3> QED BY <2>1, <2>2, <2>3, <3>1, <3>2 DEF BucketKept
  <2> QED BY <2>7, <2>8
<1> QED BY <1>5, <1>6 DEF Kept, Slots

(* The increment of a cell of hist by a thread's step.                     *)
LEMMA CellChanged ==
  ASSUME TInv, NEW j \in Syscalls, NEW a \in 0..(HIST_SLOTS + 1), NEW n \in Nat,
         hist' = [hist EXCEPT ![CellOf(j, a)] = hist[CellOf(j, a)] + n]
  PROVE  /\ hist'[CellOf(j, a)] = hist[CellOf(j, a)] + n
         /\ \A k \in Syscalls, b \in 0..(HIST_SLOTS + 1) :
              k # j \/ b # a => hist'[CellOf(k, b)] = hist[CellOf(k, b)]
<1>1. \A k \in Syscalls, b \in 0..(HIST_SLOTS + 1) :
        CellOf(k, b) \in Cells /\ (CellOf(j, a) = CellOf(k, b) => j = k /\ a = b)
  BY CellType, CellInjective
<1>2. hist \in [Cells -> Nat]
  BY DEF TInv, TypeOK
<1> QED BY <1>1, <1>2

LEMMA AddSlotKept ==
  ASSUME TInv, NEW t \in Threads, AddSlot(t), NEW k \in Syscalls, Sys(t) = k, Kept(k)
  PROVE  Kept(k)'
<1>1. PICK s \in Slots : s = Slot(Delta(t))
  BY LocalType, LatencyAssumption, SlotType DEF Slots
<1>2. /\ pc[t] = "slot" /\ pc'[t] = "sum" /\ local'[t] = local[t] /\ began' = began
      /\ \A u \in Threads \ {t} : pc'[u] = pc[u] /\ local'[u] = local[u]
  BY OthersStay DEF AddSlot, historyVars
<1>3. \A u \in Threads : Sys(u)' = Sys(u) /\ Delta(u)' = Delta(u)
  BY <1>2 DEF Sys, Delta
<1>4. /\ hist'[CellOf(k, s)] = hist[CellOf(k, s)] + 1
      /\ \A b \in 0..(HIST_SLOTS + 1) : b # s => hist'[CellOf(k, b)] = hist[CellOf(k, b)]
  <2>1. hist' = [hist EXCEPT ![CellOf(k, s)] = hist[CellOf(k, s)] + 1]
    BY <1>1 DEF AddSlot
  <2>2. s \in 0..(HIST_SLOTS + 1) /\ 1 \in Nat
    BY HistogramAssumption DEF Slots
  <2>3. \A j \in Syscalls, b \in 0..(HIST_SLOTS + 1) :
          j # k \/ b # s => hist'[CellOf(j, b)] = hist[CellOf(j, b)]
    BY <2>1, <2>2, CellChanged
  <2>4. hist'[CellOf(k, s)] = hist[CellOf(k, s)] + 1
    BY <2>1, <2>2, CellChanged
  <2> QED BY <2>3, <2>4
<1>5. SumKept(k)'
  <2>1. Timing(k)' = Timing(k)
    BY <1>2, <1>3 DEF Timing, At
  <2>2. SumOver(Deltas', Timing(k)) = SumOver(Deltas, Timing(k))
    <3>1. \A u \in Timing(k) : Deltas'[u] = Deltas[u] /\ Deltas[u] \in Nat
      BY <1>3, SumsType DEF Deltas
    <3> QED BY <3>1, SumsType, SumSame
  <2>3. hist'[CellOf(k, HIST_SLOTS)] = hist[CellOf(k, HIST_SLOTS)]
    BY <1>4, HistogramAssumption DEF Slots
  <2>4. Weighted(k)' = Weighted(k)
    BY <1>2 DEF Weighted
  <2> QED BY <2>1, <2>2, <2>3, <2>4 DEF SumKept, Kept, SumCell, CellOf, LATENCY_SLOTS
<1>6. ASSUME NEW slot \in Slots PROVE BucketKept(k, slot)'
  <2>0. /\ CellOf(k, slot)' = CellOf(k, slot) /\ Lasting(slot)' = Lasting(slot)
        /\ Flying(k, slot) \subseteq Threads /\ Flying(k, slot)' \subseteq Threads
        /\ hist[CellOf(k, slot)] \in Nat /\ Cardinality(Flying(k, slot)) \in Nat
        /\ SumOver(began[k], Lasting(slot)) \in Nat
        /\ hist[CellOf(k, slot)] + Cardinality(Flying(k, slot)) = SumOver(began[k], Lasting(slot))
    <3>1. hist[CellOf(k, slot)] \in Nat
      BY CellType, HistogramAssumption DEF Slots, TInv, TypeOK
    <3> QED BY <3>1, SumsType
            DEF Kept, BucketKept, CellOf, LATENCY_SLOTS, Lasting, Flying, At
  <2>1. \A u \in Threads \ {t} : u \in Flying(k, slot)' <=> u \in Flying(k, slot)
    BY <1>2, <1>3 DEF Flying, At, Slot
  <2>2. t \notin Flying(k, slot)' /\ (t \in Flying(k, slot) <=> s = slot)
    BY <1>1, <1>2 DEF Flying, At
  <2>3. CASE slot = s
    <3>1. Flying(k, slot)' = Flying(k, slot) \ {t} /\ t \in Flying(k, slot)
      BY <2>0, <2>1, <2>2, <2>3
    <3>2. /\ Cardinality(Flying(k, slot)') = Cardinality(Flying(k, slot)) - 1
          /\ Cardinality(Flying(k, slot)') \in Nat
      BY <3>1, SumsType, FS_RemoveElement, FS_CardinalityType
    <3>3. hist'[CellOf(k, slot)] = hist[CellOf(k, slot)] + 1
      BY <1>4, <2>3
    <3> QED BY <1>2, <2>0, <3>2, <3>3 DEF BucketKept
  <2>4. CASE slot # s
    <3>0. \A u \in Threads : u \in Flying(k, slot)' <=> u \in Flying(k, slot)
      BY <2>1, <2>2, <2>4
    <3>1. Flying(k, slot)' = Flying(k, slot)
      BY <2>0, <3>0
    <3>2. hist'[CellOf(k, slot)] = hist[CellOf(k, slot)]
      BY <1>4, <2>4, HistogramAssumption DEF Slots
    <3> QED BY <1>2, <2>0, <3>1, <3>2 DEF BucketKept
  <2> QED BY <2>3, <2>4
<1> QED BY <1>5, <1>6 DEF Kept, Slots

LEMMA AddSumKept ==
  ASSUME TInv, NEW t \in Threads, AddSum(t), NEW k \in Syscalls, Sys(t) = k, Kept(k)
  PROVE  Kept(k)'
<1>1. Delta(t) \in Nat /\ Deltas[t] = Delta(t)
  BY LocalType, LatencyAssumption DEF Deltas
<1>2. /\ pc[t] = "sum" /\ pc'[t] = "max" /\ local'[t] = local[t] /\ began' = began
      /\ \A u \in Threads \ {t} : pc'[u] = pc[u] /\ local'[u] = local[u]
  BY OthersStay DEF AddSum, historyVars
<1>3. \A u \in Threads : Sys(u)' = Sys(u) /\ Delta(u)' = Delta(u)
  BY <1>2 DEF Sys, Delta
<1>4. /\ hist'[SumCell(k)] = hist[SumCell(k)] + Delta(t)
      /\ \A b \in Slots : hist'[CellOf(k, b)] = hist[CellOf(k, b)]
  <2>1. hist' = [hist EXCEPT ![CellOf(k, HIST_SLOTS)] = hist[CellOf(k, HIST_SLOTS)] + Delta(t)]
    BY DEF AddSum, SumCell
  <2>2. HIST_SLOTS \in 0..(HIST_SLOTS + 1)
        /\ \A b \in Slots : b \in 0..(HIST_SLOTS + 1) /\ b # HIST_SLOTS
    BY HistogramAssumption DEF Slots
  <2>3. \A j \in Syscalls, b \in 0..(HIST_SLOTS + 1) :
          j # k \/ b # HIST_SLOTS => hist'[CellOf(j, b)] = hist[CellOf(j, b)]
    BY <1>1, <2>1, <2>2, CellChanged
  <2>4. hist'[CellOf(k, HIST_SLOTS)] = hist[CellOf(k, HIST_SLOTS)] + Delta(t)
    BY <1>1, <2>1, <2>2, CellChanged
  <2> QED BY <2>2, <2>3, <2>4 DEF SumCell
<1>5. SumKept(k)'
  <2>1. Timing(k)' = Timing(k) \ {t} /\ t \in Timing(k)
    BY <1>2, <1>3 DEF Timing, At
  <2>2. IsFiniteSet(Timing(k)') /\ \A u \in Timing(k) : Deltas'[u] = Deltas[u] /\ Deltas[u] \in Nat
    <3>1. \A u \in Timing(k) : Deltas'[u] = Deltas[u] /\ Deltas[u] \in Nat
      BY <1>3, SumsType DEF Deltas
    <3> QED BY <2>1, <3>1, SumsType, FS_RemoveElement
  <2>3. /\ SumOver(Deltas', Timing(k)') = SumOver(Deltas, Timing(k)')
        /\ SumOver(Deltas, Timing(k)') \in Nat
    <3>1. \A u \in Timing(k)' : Deltas'[u] = Deltas[u] /\ Deltas[u] \in Nat
      BY <2>1, <2>2
    <3> QED BY <2>2, <3>1, SumSame, SumType
  <2>4. SumOver(Deltas, Timing(k)) = Delta(t) + SumOver(Deltas, Timing(k)')
    BY <1>1, <2>1, <2>2, SumsType, SumRemove
  <2>5. hist[SumCell(k)] \in Nat
    BY CellType, HistogramAssumption DEF SumCell, TInv, TypeOK
  <2>6. hist[SumCell(k)] + SumOver(Deltas, Timing(k)) = SumOver(Weighted(k), 0..MaxTime)
    BY DEF Kept, SumKept
  <2>7. hist'[SumCell(k)] + SumOver(Deltas', Timing(k)') = SumOver(Weighted(k), 0..MaxTime)
    BY <1>1, <1>4, <2>3, <2>4, <2>5, <2>6
  <2>8. Weighted(k)' = Weighted(k) /\ SumCell(k)' = SumCell(k)
    BY <1>2 DEF Weighted, SumCell, CellOf, LATENCY_SLOTS
  <2> QED BY <2>7, <2>8 DEF SumKept
<1>6. ASSUME NEW slot \in Slots PROVE BucketKept(k, slot)'
  <2>1. Flying(k, slot)' = Flying(k, slot)
    BY <1>2, <1>3 DEF Flying, At, Slot
  <2>2. Lasting(slot)' = Lasting(slot) /\ CellOf(k, slot)' = CellOf(k, slot)
    BY DEF Lasting, CellOf, LATENCY_SLOTS
  <2> QED BY <1>2, <1>4, <2>1, <2>2 DEF Kept, BucketKept
<1> QED BY <1>5, <1>6 DEF Kept, Slots

(* Every step of a program keeps the counts of every syscall.              *)
LEMMA ThreadKept ==
  ASSUME TInv, NEW t \in Threads, RunThread(t), NEW k \in Syscalls, Kept(k)
  PROVE  Kept(k)'
<1>0. HIST_SLOTS \in Nat /\ Sys(t) \in Syscalls
  BY LocalType, HistogramAssumption
<1>1. ASSUME NEW next, NEW locals, Goto(t, next, locals), UNCHANGED <<hist, began>>,
             pc[t] \notin {"slot", "sum"}, next \notin {"slot", "sum"}
      PROVE  Kept(k)'
  BY <1>1, Elsewhere
<1>2. CASE Filtered(t) \/ Store(t) \/ StoreFails(t)
  <2>1. EnterSyscall(t) /\ pc[t] = "store" /\ UNCHANGED <<hist, began>>
    BY <1>2 DEF Filtered, Store, StoreFails, mapVars, historyVars
  <2> QED BY <1>1, <2>1 DEF EnterSyscall
<1>3. CASE SysExitUntraced(t) \/ CompareMax(t)
  <2>1. \/ pc[t] = "inside" /\ Leave(t) /\ UNCHANGED <<hist, began>>
        \/ pc[t] = "max" /\ UNCHANGED <<hist, began>>
             /\ (Leave(t) \/ \E locals : Goto(t, "setmax", locals))
    BY <1>3 DEF SysExitUntraced, CompareMax, mapVars, historyVars
  <2> QED BY <1>1, <2>1 DEF Leave
<1>4. CASE SysExit(t)
  <2>1. CASE Sys(t) = k
    BY <1>4, <2>1, ExitKept
  <2>2. CASE Sys(t) # k
    <3>1. Goto(t, "slot", [local[t] EXCEPT !.delta = Elapsed(t)])
          /\ [local[t] EXCEPT !.delta = Elapsed(t)].sys # k
      BY <1>4, <2>2, LocalType DEF SysExit, Sys, Locals
    <3>2. hist' = hist /\ began'[k] = began[k]
      BY <1>4, <2>2 DEF SysExit, TInv, TypeOK
    <3> QED BY <2>2, <3>1, <3>2, Elsewhere
  <2> QED BY <2>1, <2>2
<1>5. CASE AddSlot(t)
  <2>1. CASE Sys(t) = k
    BY <1>5, <2>1, AddSlotKept
  <2>2. CASE Sys(t) # k
    <3>1. Goto(t, "sum", local[t]) /\ local[t].sys # k /\ began' = began
      BY <1>5, <2>2 DEF AddSlot, Sys, historyVars
    <3>2. ASSUME NEW slot \in 0..HIST_SLOTS
          PROVE  hist'[CellOf(k, slot)] = hist[CellOf(k, slot)]
      <4>1. PICK s \in 0..(HIST_SLOTS + 1) : s = Slot(Delta(t))
        BY <1>0, LocalType, LatencyAssumption, SlotType
      <4>2. hist' = [hist EXCEPT ![CellOf(Sys(t), s)] = hist[CellOf(Sys(t), s)] + 1]
        BY <1>5, <4>1 DEF AddSlot
      <4>3. \A j \in Syscalls, b \in 0..(HIST_SLOTS + 1) :
              j # Sys(t) \/ b # s => hist'[CellOf(j, b)] = hist[CellOf(j, b)]
        BY <1>0, <4>2, CellChanged
      <4> QED BY <1>0, <2>2, <4>3
    <3> QED BY <2>2, <3>1, <3>2, Elsewhere
  <2> QED BY <2>1, <2>2
<1>6. CASE AddSum(t)
  <2>1. CASE Sys(t) = k
    BY <1>6, <2>1, AddSumKept
  <2>2. CASE Sys(t) # k
    <3>1. Goto(t, "max", local[t]) /\ local[t].sys # k /\ began' = began
      BY <1>6, <2>2 DEF AddSum, Sys, historyVars
    <3>2. ASSUME NEW slot \in 0..HIST_SLOTS
          PROVE  hist'[CellOf(k, slot)] = hist[CellOf(k, slot)]
      <4>1. PICK n \in Nat : n = Delta(t)
        BY LocalType, LatencyAssumption
      <4>2. hist' = [hist EXCEPT ![CellOf(Sys(t), HIST_SLOTS)] = hist[CellOf(Sys(t), HIST_SLOTS)] + n]
        BY <1>6, <4>1 DEF AddSum, SumCell
      <4>3. HIST_SLOTS \in 0..(HIST_SLOTS + 1)
        BY <1>0
      <4>4. \A j \in Syscalls, b \in 0..(HIST_SLOTS + 1) :
              j # Sys(t) \/ b # HIST_SLOTS => hist'[CellOf(j, b)] = hist[CellOf(j, b)]
        BY <1>0, <4>2, <4>3, CellChanged
      <4> QED BY <1>0, <2>2, <4>4
    <3> QED BY <2>2, <3>1, <3>2, Elsewhere
  <2> QED BY <2>1, <2>2
<1>7. CASE SetMax(t)
  <2>1. Goto(t, "user", AtRest) /\ pc[t] = "setmax" /\ began' = began
        /\ hist' = [hist EXCEPT ![MaxCell(Sys(t))] = Delta(t)]
    BY <1>7 DEF SetMax, Leave
  <2>2. \A slot \in 0..HIST_SLOTS : hist'[CellOf(k, slot)] = hist[CellOf(k, slot)]
    <3>1. \A slot \in 0..HIST_SLOTS :
            CellOf(k, slot) # MaxCell(Sys(t)) /\ CellOf(k, slot) \in Cells
      BY <1>0, CellDistinct, CellType
    <3> QED BY <2>1, <3>1 DEF TInv, TypeOK
  <2> QED BY <2>1, <2>2, Elsewhere
<1> QED BY <1>2, <1>3, <1>4, <1>5, <1>6, <1>7 DEF RunThread

KInv == \A k \in Syscalls : Kept(k)

LEMMA NextKept == ASSUME TInv, KInv, [Next]_vars PROVE KInv'
<1> SUFFICES ASSUME NEW k \in Syscalls PROVE Kept(k)'
  BY DEF KInv, Syscalls
<1>0. Kept(k)
  BY DEF KInv
<1>1. ASSUME UNCHANGED <<pc, local, hist, began>> PROVE Kept(k)'
  BY <1>0, <1>1 DEF Kept, SumKept, BucketKept, Flying, Timing, Lasting, Deltas, Weighted, At, Sys,
     Delta, SumCell, CellOf, LATENCY_SLOTS, Slot, Slots
<1>2. ASSUME NEW t \in Threads, NEW j \in Syscalls, SysEnter(t, j) PROVE Kept(k)'
  <2>1. /\ pc[t] = "user" /\ UNCHANGED <<hist, began>>
        /\ \E next \in {"store", "inside"} : \E locals : Goto(t, next, locals)
    BY <1>2 DEF SysEnter, mapVars
  <2>2. PICK next \in {"store", "inside"} : \E locals : Goto(t, next, locals)
    BY <2>1
  <2>3. PICK locals : Goto(t, next, locals)
    BY <2>2
  <2> QED BY <1>0, <2>1, <2>3, Elsewhere
<1>3. ASSUME NEW t \in Threads, RunThread(t) PROVE Kept(k)'
  BY <1>0, <1>3, ThreadKept
<1>4. CASE Tick \/ \E t \in Threads, c \in Comms : SetComm(t, c)
  BY <1>1, <1>4 DEF Tick, SetComm, threadVars, mapVars, historyVars
<1>5. CASE UNCHANGED machineVars
  BY <1>1, <1>5 DEF machineVars, threadVars, mapVars, historyVars
<1> QED BY <1>2, <1>3, <1>4, <1>5 DEF Next, MachineNext, vars

LEMMA SumZeros ==
  ASSUME NEW S, IsFiniteSet(S), NEW f, \A x \in S : f[x] = 0
  PROVE  SumOver(f, S) = 0
<1> DEFINE G == {T \in SUBSET S : SumOver(f, T) = 0}
<1>1. {} \in G
  BY SumEmpty
<1>2. ASSUME NEW T \in SUBSET S, NEW x \in S \ T, T \in G PROVE T \cup {x} \in G
  <2>1. IsFiniteSet(T)
    BY FS_Subset
  <2>2. SumOver(f, T \cup {x}) = f[x] + SumOver(f, T)
    <3>1. \A y \in T \cup {x} : f[y] = 0 /\ f[y] \in Nat
      OBVIOUS
    <3>2. x \notin T
      OBVIOUS
    <3> HIDE DEF G
    <3> QED BY <2>1, <3>1, <3>2, SumAdd
  <2> QED BY <1>2, <2>2
<1> HIDE DEF G
<1>3. S \in G
  BY <1>1, <1>2, SetInductive
<1> QED BY <1>3 DEF G

LEMMA InitKept == Init => KInv
<1> SUFFICES ASSUME Init, NEW k \in Syscalls PROVE Kept(k)
  BY DEF KInv
<1>0. TInv
  BY InitTInv
<1>1. /\ hist = Zeros /\ \A t \in Threads : pc[t] = "user"
      /\ began[k] = [d \in 0..MaxTime |-> 0]
  BY DEF Init
<1>2. Timing(k) = {} /\ \A slot \in Slots : Flying(k, slot) = {}
  BY <1>1 DEF Timing, Flying, At
<1>3. SumOver(Weighted(k), 0..MaxTime) = 0
  <2>1. \A d \in 0..MaxTime : d \in Nat
    BY LatencyAssumption
  <2>2. \A d \in 0..MaxTime : Weighted(k)[d] = 0
    BY <1>1, <2>1 DEF Weighted
  <2> QED BY <1>0, <2>2, SumsType, SumZeros
<1>4. ASSUME NEW slot \in Slots PROVE SumOver(began[k], Lasting(slot)) = 0
  <2>1. \A d \in Lasting(slot) : began[k][d] = 0
    BY <1>1 DEF Lasting
  <2> QED BY <1>0, <2>1, SumsType, SumZeros
<1>5. \A slot \in 0..(HIST_SLOTS + 1) : hist[CellOf(k, slot)] = 0
  BY <1>1, CellType DEF Zeros
<1>6. SumKept(k)
  <2>1. hist[SumCell(k)] = 0
    BY <1>5, HistogramAssumption DEF SumCell
  <2> QED BY <1>2, <1>3, <2>1, SumEmpty DEF SumKept
<1>7. ASSUME NEW slot \in Slots PROVE BucketKept(k, slot)
  <2>1. hist[CellOf(k, slot)] = 0
    BY <1>5, HistogramAssumption DEF Slots
  <2> QED BY <1>2, <1>4, <2>1, FS_EmptySet DEF BucketKept
<1> QED BY <1>6, <1>7 DEF Kept

(* The buckets and the sum of every syscall hold each exit that found an   *)
(* entry exactly once, whichever way the programs of all threads           *)
(* interleave.                                                             *)
THEOREM NothingIsLost == Spec => []Conserved
<1>1. KInv => Conserved
  BY ConservedParts DEF KInv
<1> QED BY <1>1, InitKept, NextKept, TInvHolds, PTL DEF Spec

-----------------------------------------------------------------------------
(* The percentiles.                                                        *)

Upto(slot) == {d \in 0..MaxTime : Slot(d) <= slot}

(* c counts the samples b of each bucket.                                  *)
Buckets(c, b) ==
  /\ \A d \in 0..MaxTime : b[d] \in Nat
  /\ \A slot \in Slots : c[slot] = SumOver(b, Lasting(slot))

LEMMA BucketsType ==
  ASSUME NEW c, NEW b, Buckets(c, b)
  PROVE  /\ \A S \in SUBSET (0..MaxTime) : IsFiniteSet(S) /\ SumOver(b, S) \in Nat
         /\ \A slot \in Slots : c[slot] \in Nat
<1>1. IsFiniteSet(0..MaxTime)
  BY LatencyAssumption, FS_Interval
<1>2. ASSUME NEW S \in SUBSET (0..MaxTime) PROVE IsFiniteSet(S) /\ SumOver(b, S) \in Nat
  <2>1. IsFiniteSet(S)
    BY <1>1, FS_Subset
  <2>2. \A d \in S : b[d] \in Nat
    BY DEF Buckets
  <2> QED BY <2>1, <2>2, SumType
<1>3. \A slot \in Slots : Lasting(slot) \in SUBSET (0..MaxTime)
  BY DEF Lasting
<1> QED BY <1>2, <1>3 DEF Buckets

(* Adding up the buckets from the first adds up the samples of each.       *)
LEMMA SeenIsUpto ==
  ASSUME NEW c, NEW b, Buckets(c, b)
  PROVE  /\ \A slot \in Slots : Seen(c, slot) = SumOver(b, Upto(slot))
         /\ Total(c) = SumOver(b, 0..MaxTime)
<1>0. HIST_SLOTS \in Nat \ {0} /\ MaxTime \in Nat /\ \A i \in Slots : i \in Nat
  BY HistogramAssumption, LatencyAssumption DEF Slots
<1>1. \A d \in 0..MaxTime : Slot(d) \in Slots
  BY <1>0, SlotType DEF Slots
<1>2. \A i : Upto(i) \in SUBSET (0..MaxTime) /\ Lasting(i) \in SUBSET (0..MaxTime)
  BY DEF Upto, Lasting
<1> DEFINE H == {i \in Nat : i \in Slots => SumOver(c, 0..i) = SumOver(b, Upto(i))}
<1>3. 0 \in H
  <2>1. 0 \in Slots /\ 0..0 = {} \cup {0}
    BY <1>0 DEF Slots
  <2>2. Upto(0) = Lasting(0)
    BY <1>0, <1>1 DEF Upto, Lasting
  <2>3. c[0] \in Nat /\ c[0] = SumOver(b, Lasting(0))
    BY <2>1, BucketsType DEF Buckets
  <2>4. IsFiniteSet({}) /\ 0 \notin {} /\ \A y \in {} \cup {0} : c[y] \in Nat
    BY <2>3, FS_EmptySet
  <2>5. SumOver(c, {} \cup {0}) = c[0] + SumOver(c, {})
    BY <2>4, SumAdd
  <2> QED BY <2>1, <2>2, <2>3, <2>5, SumEmpty
<1>4. ASSUME NEW i \in Nat, i \in H PROVE i + 1 \in H
  <2> SUFFICES ASSUME i + 1 \in Slots
               PROVE  SumOver(c, 0..(i + 1)) = SumOver(b, Upto(i + 1))
    OBVIOUS
  <2>1. i \in Slots /\ \A j \in 0..(i + 1) : j \in Slots
    BY <1>0 DEF Slots
  <2>2. SumOver(c, 0..i) = SumOver(b, Upto(i)) /\ SumOver(b, Upto(i)) \in Nat
    BY <1>2, <1>4, <2>1, BucketsType
  <2>3. SumOver(c, 0..(i + 1)) = c[i + 1] + SumOver(c, 0..i)
    <3>1. 0..(i + 1) = (0..i) \cup {i + 1} /\ i + 1 \notin 0..i
      OBVIOUS
    <3>2. IsFiniteSet(0..i)
      BY FS_Interval
    <3>3. \A j \in (0..i) \cup {i + 1} : c[j] \in Nat
      BY <2>1, <3>1, BucketsType
    <3>4. SumOver(c, (0..i) \cup {i + 1}) = c[i + 1] + SumOver(c, 0..i)
      BY <3>1, <3>2, <3>3, SumAdd
    <3> QED BY <3>1, <3>4
  <2>4. SumOver(b, Upto(i + 1)) = SumOver(b, Upto(i)) + SumOver(b, Lasting(i + 1))
    <3>1. Upto(i + 1) = Upto(i) \cup Lasting(i + 1) /\ Upto(i) \cap Lasting(i + 1) = {}
      <4>1. \A d \in 0..MaxTime : Slot(d) \in Nat
        BY <1>0, <1>1
      <4>2. \A d \in 0..MaxTime : Slot(d) <= i + 1 <=> Slot(d) <= i \/ Slot(d) = i + 1
        BY <4>1
      <4>3. \A d \in 0..MaxTime : ~(Slot(d) <= i /\ Slot(d) = i + 1)
        BY <4>1
      <4> QED BY <4>2, <4>3 DEF Upto, Lasting
    <3>2. IsFiniteSet(Upto(i)) /\ IsFiniteSet(Lasting(i + 1))
      BY <1>2, BucketsType
    <3>3. \A d \in Upto(i) \cup Lasting(i + 1) : b[d] \in Nat
      BY <1>2 DEF Buckets
    <3> QED BY <3>1, <3>2, <3>3, SumDisjoint
  <2>5. c[i + 1] = SumOver(b, Lasting(i + 1)) /\ c[i + 1] \in Nat
    BY BucketsType DEF Buckets
  <2> QED BY <2>2, <2>3, <2>4, <2>5
<1> HIDE DEF H
<1>5. \A i \in Nat : i \in H
  BY <1>3, <1>4, Inductive
<1>6. \A slot \in Slots : SumOver(c, 0..slot) = SumOver(b, Upto(slot))
  BY <1>0, <1>5 DEF H
<1>7. HIST_SLOTS - 1 \in Slots /\ Slots = 0..(HIST_SLOTS - 1)
  BY <1>0 DEF Slots
<1>8. Upto(HIST_SLOTS - 1) = 0..MaxTime
  BY <1>0, <1>1 DEF Upto, Slots
<1> QED BY <1>6, <1>7, <1>8 DEF Seen, Total

(* Below the bound of a bucket lie the samples of the buckets up to it.    *)
LEMMA BelowIsUpto ==
  ASSUME NEW i \in Nat, i < HIST_SLOTS - 1
  PROVE  {d \in 0..MaxTime : d < Pow2[i + 1]} = Upto(i)
<1> SUFFICES ASSUME NEW d \in 0..MaxTime PROVE d < Pow2[i + 1] <=> Slot(d) <= i
  BY DEF Upto
<1>1. HIST_SLOTS \in Nat /\ d \in Nat /\ i + 1 \in 1..63
  BY HistogramAssumption, LatencyAssumption
<1>2. Pow2[i + 1] \in Nat
  BY <1>1, Pow2Step
<1>3. PICK r \in Nat : r = Log2Slot(d) /\ (Pow2[i + 1] <= d <=> i + 1 <= r)
  <2>1. Log2Slot(d) \in 0..63
    BY <1>1, Log2SlotType
  <2>2. Pow2[i + 1] <= d <=> i + 1 <= Log2Slot(d)
    BY <1>1, Log2SlotType
  <2> QED BY <2>1, <2>2
<1>4. Slot(d) = IF r >= HIST_SLOTS THEN HIST_SLOTS - 1 ELSE r
  BY <1>3 DEF Slot
<1> QED BY <1>1, <1>2, <1>3, <1>4

LEMMA RankIsShare ==
  ASSUME NEW p \in Percents, NEW all \in Nat
  PROVE  /\ Rank(p, all) \in Nat
         /\ \A n \in Nat : n >= Rank(p, all) <=> 100 * n >= p * all
         /\ all >= Rank(p, all)
<1>1. CASE p = 50
  BY <1>1 DEF Rank
<1>2. CASE p = 95
  BY <1>2 DEF Rank
<1>3. CASE p = 99
  BY <1>3 DEF Rank
<1> QED BY <1>1, <1>2, <1>3 DEF Percents

LEMMA PercentileFits ==
  ASSUME NEW c, NEW b, Buckets(c, b), NEW p \in Percents, SumOver(b, 0..MaxTime) > 0
  PROVE  LET Below(bound) == SumOver(b, {d \in 0..MaxTime : d < bound})
             all == SumOver(b, 0..MaxTime)
             bound == Percentile(c, p)
         IN  /\ 100 * Below(bound) >= p * all \/ bound = UpperBound(HIST_SLOTS - 1)
             /\ bound > 2 => 100 * Below(bound \div 2) < p * all
<1>0. HIST_SLOTS \in Nat \ {0} /\ p \in Nat
  BY HistogramAssumption DEF Percents
<1>1. PICK all \in Nat \ {0} : all = SumOver(b, 0..MaxTime) /\ Total(c) = all
  <2>1. SumOver(b, 0..MaxTime) \in Nat
    BY BucketsType
  <2>2. Total(c) = SumOver(b, 0..MaxTime)
    BY SeenIsUpto
  <2> QED BY <2>1, <2>2
<1>2. \A slot \in Slots : Seen(c, slot) \in Nat /\ Seen(c, slot) = SumOver(b, Upto(slot))
  <2>1. \A slot : Upto(slot) \in SUBSET (0..MaxTime)
    BY DEF Upto
  <2> QED BY <2>1, BucketsType, SeenIsUpto
<1>3. /\ Rank(p, all) \in Nat /\ all >= Rank(p, all)
      /\ \A n \in Nat : n >= Rank(p, all) <=> 100 * n >= p * all
  BY RankIsShare
<1> DEFINE reached == {slot \in Slots : Seen(c, slot) >= Rank(p, Total(c))}
<1>4. PICK s \in reached : /\ \A other \in reached : s <= other
                           /\ Percentile(c, p) = Pow2[s + 1]
  <2>1. HIST_SLOTS - 1 \in reached
    <3>1. HIST_SLOTS - 1 \in Slots /\ Seen(c, HIST_SLOTS - 1) = Total(c)
      BY <1>0 DEF Slots, Seen, Total
    <3> QED BY <1>1, <1>3, <3>1
  <2>2. reached \in SUBSET Nat
    BY DEF Slots
  <2> DEFINE least == CHOOSE slot \in reached : \A other \in reached : slot <= other
  <2>3. least \in reached /\ \A other \in reached : least <= other
    BY <2>1, <2>2, Least
  <2>4. Percentile(c, p) = Pow2[least + 1]
    BY <1>1 DEF Percentile, UpperBound
  <2> HIDE DEF least
  <2> QED BY <2>3, <2>4
<1>5. s \in Slots /\ s \in 0..(HIST_SLOTS - 1) /\ s \in Nat
  BY <1>0, <1>4 DEF Slots
<1>6. 100 * Seen(c, s) >= p * all
  BY <1>1, <1>2, <1>3, <1>4, <1>5
<1>7. ASSUME s # 0 PROVE 100 * Seen(c, s - 1) < p * all
  <2>1. s - 1 \in Slots /\ s - 1 \in Nat /\ ~(s <= s - 1)
    BY <1>0, <1>5, <1>7 DEF Slots
  <2>2. s - 1 \notin reached
    BY <1>4, <2>1
  <2>3. ~(Seen(c, s - 1) >= Rank(p, all))
    BY <1>1, <2>1, <2>2
  <2>4. PICK n \in Nat : n = Seen(c, s - 1)
    BY <1>2, <2>1
  <2>5. ~(100 * n >= p * all)
    BY <1>3, <2>3, <2>4
  <2>6. p * all \in Nat
    BY <1>0, <1>1
  <2> QED BY <2>4, <2>5, <2>6
<1> HIDE DEF reached
<1> DEFINE Below(bound) == SumOver(b, {d \in 0..MaxTime : d < bound})
<1>8. ASSUME s < HIST_SLOTS - 1 PROVE Below(Pow2[s + 1]) = Seen(c, s)
  BY <1>2, <1>5, <1>8, BelowIsUpto
<1>9. ASSUME Pow2[s + 1] > 2
      PROVE  s # 0 /\ Below(Pow2[s + 1] \div 2) = Seen(c, s - 1)
  <2>1. s # 0
    <3>1. Pow2[0] = 1 /\ Pow2[0 + 1] = 2 * Pow2[0]
      BY Pow2Step
    <3> QED BY <1>9, <3>1
  <2>2. s - 1 \in Nat /\ s - 1 < HIST_SLOTS - 1 /\ (s - 1) + 1 = s /\ s - 1 \in Slots
    BY <1>0, <1>5, <2>1 DEF Slots
  <2>3. Pow2[s + 1] \div 2 = Pow2[s]
    <3>1. PICK n \in Nat : n = Pow2[s] /\ Pow2[s + 1] = 2 * n
      BY <1>5, Pow2Step
    <3>2. (2 * n) \div 2 = n
      OBVIOUS
    <3> QED BY <3>1, <3>2
  <2>4. {d \in 0..MaxTime : d < Pow2[s]} = Upto(s - 1)
    <3>1. {d \in 0..MaxTime : d < Pow2[(s - 1) + 1]} = Upto(s - 1)
      BY <2>2, BelowIsUpto
    <3> QED BY <2>2, <3>1
  <2> QED BY <1>2, <2>1, <2>2, <2>3, <2>4
<1>10. 100 * Below(Pow2[s + 1]) >= p * all \/ Pow2[s + 1] = UpperBound(HIST_SLOTS - 1)
  <2>1. CASE s < HIST_SLOTS - 1
    BY <1>6, <1>8, <2>1
  <2>2. CASE s = HIST_SLOTS - 1
    BY <2>2 DEF UpperBound
  <2> QED BY <1>0, <1>5, <2>1, <2>2
<1>11. Pow2[s + 1] > 2 => 100 * Below(Pow2[s + 1] \div 2) < p * all
  BY <1>7, <1>9
<1> QED BY <1>1, <1>4, <1>10, <1>11

(* The line printed when nothing is on its way to the maps counts every    *)
(* exit, adds up all durations, has the longest of them as its maximum     *)
(* unless two stores raced, and each of its percentiles is the bound of    *)
(* the right bucket.                                                       *)
THEOREM PrintedLinesFit == Spec => []LineFits
<1>1. ASSUME TInv, KInv, XInv PROVE LineFits
  <2> SUFFICES ASSUME NEW k \in Syscalls, UpToDate(k)
               PROVE LET Below(bound) == Samples(k, {d \in 0..MaxTime : d < bound})
                         all == Samples(k, 0..MaxTime)
                     IN  /\ Line(k).count = all
                         /\ Line(k).sum
                              = SumOver([d \in 0..MaxTime |-> d * began[k][d]], 0..MaxTime)
                         /\ ~raced[k] =>
                              Line(k).max = Max({0} \cup {d \in 0..MaxTime : began[k][d] > 0})
                         /\ \A p \in Percents : all > 0 =>
                              LET bound == Line(k).percentile[p]
                              IN  /\ \/ 100 * Below(bound) >= p * all
                                     \/ bound = UpperBound(HIST_SLOTS - 1)
                                  /\ bound > 2 => 100 * Below(bound \div 2) < p * all
    BY DEF LineFits
  <2> DEFINE c == [slot \in Slots |-> shown[CellOf(k, slot)]]
             b == began[k]
  <2>1. Buckets(c, b)
    <3>1. \A d \in 0..MaxTime : b[d] \in Nat
      BY <1>1, SumsType
    <3>2. ASSUME NEW slot \in Slots PROVE c[slot] = SumOver(b, Lasting(slot))
      <4>1. c[slot] = hist[CellOf(k, slot)] /\ Flying(k, slot) = {}
        BY HistogramAssumption DEF UpToDate, Slots, Flying, At
      <4>2. hist[CellOf(k, slot)] \in Nat
        BY <1>1, CellType, HistogramAssumption DEF Slots, TInv, TypeOK
      <4>3. hist[CellOf(k, slot)] + Cardinality(Flying(k, slot)) = SumOver(b, Lasting(slot))
        BY <1>1 DEF KInv, Kept, BucketKept
      <4> QED BY <4>1, <4>2, <4>3, FS_EmptySet
    <3> HIDE DEF c
    <3> QED BY <3>1, <3>2 DEF Buckets
  <2>2. /\ Line(k).count = Total(c)
        /\ \A p \in Percents : Line(k).percentile[p] = Percentile(c, p)
    BY DEF Line, Summarize
  <2> HIDE DEF c
  <2>3. Total(c) = SumOver(b, 0..MaxTime)
    BY <2>1, SeenIsUpto
  <2>4. \A p \in Percents : SumOver(b, 0..MaxTime) > 0 =>
          /\ \/ 100 * SumOver(b, {d \in 0..MaxTime : d < Percentile(c, p)})
                  >= p * SumOver(b, 0..MaxTime)
             \/ Percentile(c, p) = UpperBound(HIST_SLOTS - 1)
          /\ Percentile(c, p) > 2 =>
               100 * SumOver(b, {d \in 0..MaxTime : d < (Percentile(c, p) \div 2)})
                 < p * SumOver(b, 0..MaxTime)
    BY <2>1, PercentileFits
  <2>5. Line(k).sum = SumOver([d \in 0..MaxTime |-> d * began[k][d]], 0..MaxTime)
    <3>1. Line(k).sum = hist[SumCell(k)]
      <4>1. HIST_SLOTS \in 0..(HIST_SLOTS + 1)
        BY HistogramAssumption
      <4> QED BY <4>1 DEF Line, Summarize, UpToDate, SumCell
    <3>2. Timing(k) = {}
      BY DEF Timing, At, UpToDate
    <3>3. hist[SumCell(k)] + SumOver(Deltas, {}) = SumOver(Weighted(k), 0..MaxTime)
      BY <1>1, <3>2 DEF KInv, Kept, SumKept
    <3>4. hist[SumCell(k)] \in Nat
      BY <1>1, CellType, HistogramAssumption DEF SumCell, TInv, TypeOK
    <3>5. hist[SumCell(k)] = SumOver(Weighted(k), 0..MaxTime)
      BY <3>3, <3>4, SumEmpty
    <3> QED BY <3>1, <3>5 DEF Weighted
  <2>6. ASSUME ~raced[k]
        PROVE  Line(k).max = Max({0} \cup {d \in 0..MaxTime : began[k][d] > 0})
    <3>1. Line(k).max = hist[MaxCell(k)]
      <4>1. HIST_SLOTS + 1 \in 0..(HIST_SLOTS + 1)
        BY HistogramAssumption
      <4> QED BY <4>1 DEF Line, Summarize, UpToDate, MaxCell
    <3>2. hist[MaxCell(k)] = Max({0} \cup {d \in 0..MaxTime : began[k][d] > 0})
      BY <1>1, <2>6, XInvMax DEF MaxExact, UpToDate
    <3> QED BY <3>1, <3>2
  <2> QED BY <2>2, <2>3, <2>4, <2>5, <2>6 DEF Samples
<1> QED BY <1>1, InitKept, NextKept, InitXInv, NextXInv, TInvHolds, PTL DEF Spec
=============================================================================
