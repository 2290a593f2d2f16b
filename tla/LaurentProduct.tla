--------------------------- MODULE LaurentProduct ---------------------------
(***************************************************************************)
(* One job of the daemon (compute_exact of blitter-daemon.rs): the product *)
(* of two Laurent polynomials, computed on the CPU as a reference and on   *)
(* the GPU by the four passes of blitter.wgsl, and compared.               *)
(*                                                                         *)
(* The N = Width^2 lanes of the sort run side by side and meet at barriers;*)
(* the lanes of the compaction draw their places from an atomic counter.   *)
(* In the product and reduce passes no lane reads what another one writes: *)
(* each of them is one step.  Exponents are u32 and coefficients i32:      *)
(* MaxExp is 2^32 - 1 and MaxCoef 2^31 - 1 in the code.                    *)
(*                                                                         *)
(* Left out: buffers, layouts, pipelines and the adapter.                  *)
(***************************************************************************)
EXTENDS Integers, Sequences, FiniteSets, Functions

CONSTANTS Width,   \* terms per factor
          MaxExp,  \* the greatest exponent
          MaxCoef, \* the greatest coefficient; the least one is -MaxCoef - 1
          Factors  \* the factors that requests bring

Exp == 0..MaxExp
Coef == -MaxCoef - 1 .. MaxCoef
Triple == [qe : Exp, te : Exp, coef : Coef]

ASSUME FactorAssumption == /\ MaxExp \in Nat /\ MaxCoef \in Nat
                           /\ \A f \in Factors : f \in Seq(Triple) /\ Len(f) <= Width

N == Width * Width
PowerOfTwo(n) == \A d \in 2..n : n % d = 0 => d % 2 = 0

\* The sort network needs a number of lanes that is a power of two (64).
ASSUME WidthAssumption == Width \in Nat /\ Width > 1 /\ PowerOfTwo(N)

Lane == 0..N - 1

VARIABLES a, b,     \* the factors
          phase,    \* how far the job is
          prods,    \* the buffer of products: a Term for each lane
          work,     \* wq, wt and wcoef, shared by the lanes of the sort
          k, j,     \* the stage of the sort network
          todo,     \* the lanes that are on their way to the next barrier
          finals,   \* finalTerms
          out,      \* finalOut, up to counters[0]
          verdict   \* what compute_exact returns

laurentVars == <<a, b, phase, prods, work, k, j, todo, finals, out, verdict>>

Term == [qe : Exp, te : Exp, coef : Coef, valid : BOOLEAN]
Zero == [qe |-> 0, te |-> 0, coef |-> 0, valid |-> FALSE]
Bare(term) == [qe |-> term.qe, te |-> term.te, coef |-> term.coef]

\* Arithmetic of i32 and u32 on the GPU: modulo the width.
WrapCoef(n) == LET half == MaxCoef + 1
               IN  ((n + half) % (2 * half)) - half
WrapExp(n) == n % (MaxExp + 1)

Init == /\ a \in Factors /\ b \in Factors
        /\ phase = "reference"
        /\ prods = [l \in Lane |-> Zero]
        /\ work = [l \in Lane |-> Bare(Zero)]
        /\ k = 2 /\ j = 1
        /\ todo = {}
        /\ finals = [l \in Lane |-> Zero]
        /\ out = <<>>
        /\ verdict = "none"

-----------------------------------------------------------------------------
(* exact_reference: the product over the integers, or an error.            *)

Pairs == (DOMAIN a) \X (DOMAIN b)
PairKey(p) == <<a[p[1]].qe + b[p[2]].qe, a[p[1]].te + b[p[2]].te>>
PairCoef(p) == a[p[1]].coef * b[p[2]].coef

Keys == {PairKey(p) : p \in Pairs}
Total(key) == SumFunctionOnSet([p \in Pairs |-> PairCoef(p)],
                               {p \in Pairs : PairKey(p) = key})

InDomain == /\ \A p \in Pairs : PairKey(p) \in Exp \X Exp /\ PairCoef(p) \in Coef
            /\ \A key \in Keys : Total(key) \in Coef

Exact == {[qe |-> key[1], te |-> key[2], coef |-> Total(key)] :
            key \in {x \in Keys : Total(x) # 0}}

\* The reference is computed first: out of its domain nothing reaches the GPU.
CheckReference ==
  /\ phase = "reference"
  /\ phase' = IF InDomain THEN "product" ELSE "done"
  /\ verdict' = IF InDomain THEN "none" ELSE "error"
  /\ UNCHANGED <<a, b, prods, work, k, j, todo, finals, out>>

-----------------------------------------------------------------------------
(* product_pass: lane l multiplies term l % w of A and term l \div w of B. *)

Product(l) ==
  LET i == (l % Width) + 1
      m == (l \div Width) + 1
  IN  IF i \in DOMAIN a /\ m \in DOMAIN b
        THEN [qe |-> WrapExp(a[i].qe + b[m].qe), te |-> WrapExp(a[i].te + b[m].te),
              coef |-> WrapCoef(a[i].coef * b[m].coef), valid |-> TRUE]
        ELSE Zero

ProductPass ==
  /\ phase = "product"
  /\ prods' = [l \in Lane |-> Product(l)]
  /\ phase' = "load"
  /\ UNCHANGED <<a, b, work, k, j, todo, finals, out, verdict>>

-----------------------------------------------------------------------------
(* sort_pass: a bitonic network over the key (qe, te).                     *)

Sentinel == <<MaxExp, MaxExp>>
Key(term) == <<term.qe, term.te>>
KeyLess(x, y) == x[1] < y[1] \/ (x[1] = y[1] /\ x[2] < y[2])

\* An invalid product takes the greatest key and counts nothing.
Loaded(term) == IF term.valid
                  THEN Bare(term)
                  ELSE [qe |-> MaxExp, te |-> MaxExp, coef |-> 0]

LoadWork ==
  /\ phase = "load"
  /\ work' = [l \in Lane |-> Loaded(prods[l])]
  /\ phase' = "sort"
  /\ todo' = Lane
  /\ UNCHANGED <<a, b, prods, k, j, finals, out, verdict>>

BitClear(l, power) == (l \div power) % 2 = 0
Other(l) == IF BitClear(l, j) THEN l + j ELSE l - j   \* lane ^ j

\* Lane l, the lower of its pair, is to exchange with the other one.
Ascending(l) == BitClear(l, k)
Exchange(l) == IF Ascending(l) THEN KeyLess(Key(work[Other(l)]), Key(work[l]))
                               ELSE KeyLess(Key(work[l]), Key(work[Other(l)]))

\* Mutant of Swapped: the coefficients stay where they are.
SwappedKeys(l) ==
  [work EXCEPT ![l] = [work[Other(l)] EXCEPT !.coef = work[l].coef],
               ![Other(l)] = [work[l] EXCEPT !.coef = work[Other(l)].coef]]

Swapped(l) == [work EXCEPT ![l] = work[Other(l)], ![Other(l)] = work[l]]

\* A lane compares and comes to the barrier.  The upper lanes of the pairs
\* have nothing to do.
Compare(l) ==
  /\ phase = "sort"
  /\ l \in todo
  /\ Other(l) > l
  /\ work' = IF Exchange(l) THEN Swapped(l) ELSE work
  /\ todo' = todo \ {l, Other(l)}
  /\ UNCHANGED <<a, b, phase, prods, k, j, finals, out, verdict>>

\* Mutant of Barrier: it does not wait for the last pair.
BarrierShort ==
  /\ phase = "sort"
  /\ todo \subseteq {N - 1, Other(N - 1)}
  /\ k < N \/ j > 1
  /\ todo' = Lane
  /\ k' = IF j > 1 THEN k ELSE 2 * k
  /\ j' = IF j > 1 THEN j \div 2 ELSE k
  /\ UNCHANGED <<a, b, phase, prods, work, finals, out, verdict>>

\* workgroupBarrier, and the next stage of the loops over k and j
Barrier ==
  /\ phase = "sort"
  /\ todo = {}
  /\ k < N \/ j > 1
  /\ todo' = Lane
  /\ k' = IF j > 1 THEN k ELSE 2 * k
  /\ j' = IF j > 1 THEN j \div 2 ELSE k
  /\ UNCHANGED <<a, b, phase, prods, work, finals, out, verdict>>

\* The last barrier: validity is read off the key.
Stored(triple) == [qe |-> triple.qe, te |-> triple.te, coef |-> triple.coef,
                   valid |-> Key(triple) # Sentinel]

Store ==
  /\ phase = "sort"
  /\ todo = {}
  /\ k = N /\ j = 1
  /\ prods' = [l \in Lane |-> Stored(work[l])]
  /\ phase' = "reduce"
  /\ UNCHANGED <<a, b, work, k, j, todo, finals, out, verdict>>

-----------------------------------------------------------------------------
(* reduce_pass and compact_pass.                                           *)

SameRun(l, m) == prods[m].valid /\ Key(prods[m]) = Key(prods[l])
IsStart(l) == prods[l].valid /\ (l = 0 \/ ~SameRun(l, l - 1))

\* The lanes after l that the loop over j adds, up to its break.
Run(l) == {m \in l..N - 1 : \A x \in l..m : SameRun(l, x)}
Coefs == [l \in Lane |-> prods[l].coef]

\* Mutant of Reduced: the key is not compared in full.
ReducedByQ(l) ==
  IF prods[l].valid /\ (l = 0 \/ prods[l].qe # prods[l - 1].qe)
    THEN [prods[l] EXCEPT
            !.coef = WrapCoef(SumFunctionOnSet(Coefs,
                                {m \in l..N - 1 : prods[m].valid /\ prods[m].qe = prods[l].qe}))]
    ELSE Zero

Reduced(l) == IF IsStart(l)
                THEN [prods[l] EXCEPT !.coef = WrapCoef(SumFunctionOnSet(Coefs, Run(l)))]
                ELSE Zero

ReducePass ==
  /\ phase = "reduce"
  /\ finals' = [l \in Lane |-> Reduced(l)]
  /\ phase' = "compact"
  /\ todo' = {l \in Lane : Reduced(l).valid /\ Reduced(l).coef # 0}
  /\ UNCHANGED <<a, b, prods, work, k, j, out, verdict>>

\* atomicAdd gives the next place, in whatever order the lanes come.
Compact(l) ==
  /\ phase = "compact"
  /\ l \in todo
  /\ out' = Append(out, Bare(finals[l]))
  /\ todo' = todo \ {l}
  /\ UNCHANGED <<a, b, phase, prods, work, k, j, finals, verdict>>

-----------------------------------------------------------------------------
\* actual = expected: both are sorted by key, and no key of Exact comes twice.
Agrees == /\ Len(out) = Cardinality(Exact)
          /\ {out[i] : i \in DOMAIN out} = Exact

\* The readback may fail; then the answers are compared.
Return(ok) ==
  /\ phase = "compact"
  /\ todo = {}
  /\ phase' = "done"
  /\ verdict' = IF ~ok THEN "lost" ELSE IF Agrees THEN "ok" ELSE "mismatch"
  /\ UNCHANGED <<a, b, prods, work, k, j, todo, finals, out>>

Done == phase = "done" /\ UNCHANGED laurentVars

Next == \/ CheckReference
        \/ ProductPass
        \/ LoadWork
        \/ \E l \in Lane : Compare(l)
        \/ Barrier
        \/ Store
        \/ ReducePass
        \/ \E l \in Lane : Compact(l)
        \/ \E ok \in BOOLEAN : Return(ok)
        \/ Done

Spec == Init /\ [][Next]_laurentVars

-----------------------------------------------------------------------------
TypeOK ==
  /\ a \in Factors /\ b \in Factors
  /\ phase \in {"reference", "product", "load", "sort", "reduce", "compact", "done"}
  /\ prods \in [Lane -> Term] /\ finals \in [Lane -> Term] /\ work \in [Lane -> Triple]
  /\ k \in 2..N /\ j \in 1..k - 1
  /\ todo \subseteq Lane
  /\ out \in Seq(Triple)
  /\ verdict \in {"none", "error", "lost", "ok", "mismatch"}

(* Whatever order the lanes of the sort run in, the network only moves     *)
(* terms: as many lanes hold a term as products were loaded with it.       *)
SortMoves ==
  phase = "sort" =>
    \A l \in Lane : Cardinality({m \in Lane : work[m] = work[l]})
                    = Cardinality({m \in Lane : Loaded(prods[m]) = work[l]})

(* No lane uses a stale neighbour: when the network is through, the keys   *)
(* ascend, so equal keys are neighbours and the reduction finds them all.  *)
SortOrders == phase = "reduce" => \A l \in Lane \ {0} : ~KeyLess(Key(prods[l]), Key(prods[l - 1]))

(* "GPU/CPU exactness mismatch" is raised for nothing but the sentinel     *)
(* key: a job in the domain of the reference, none of whose products has   *)
(* the greatest exponents, gets from the GPU what the reference says.      *)
NoFalseMismatch == Sentinel \notin Keys => verdict # "mismatch"
=============================================================================
