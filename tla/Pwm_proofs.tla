----------------------------- MODULE Pwm_proofs -----------------------------
(***************************************************************************)
(* That the pwm interrupt never uses a set of phases that is being built,  *)
(* and that in a cycle of a set every pin is on for its duty, for any      *)
(* pins, duties and periods, and however often the interrupt comes between *)
(* the steps of a change.                                                  *)
(*                                                                         *)
(* The first is a matter of what the mask and the flags say at each of     *)
(* these steps.  For the second the delays of a set are the differences of *)
(* an ascending sequence, so that they add up to the duties on the way.    *)
(***************************************************************************)
EXTENDS Pwm, FiniteSetTheorems, WellFoundedInduction, TLAPS

Flags == [reset : BOOLEAN, next : BOOLEAN, enabled : BOOLEAN]

TypeInv ==
  /\ current \in {0, 1} /\ target \in {0, 1}
  /\ flags \in Flags /\ word \in Flags
  /\ sets = [n \in {0, 1} |-> sets[n]]

(* While a set is being built the other one is whole, and the handler      *)
(* keeps to that: it is masked and out if the set is the current one, and  *)
(* is not told to change if it is not.                                     *)
BuildInv ==
  /\ go # "build" => sets[0].done /\ sets[1].done
  /\ go = "build" => /\ sets[1 - target].done
                     /\ target = current => ~unmasked /\ ~inside
                     /\ target # current => ~flags.next

IInv == TypeInv /\ BuildInv
-----------------------------------------------------------------------------
LEMMA WhatIsBuilt == ASSUME NEW d PROVE Built(d).done /\ Empty.done
  BY DEF Built, Empty

LEMMA InitEstablishes == Init => IInv
<1> SUFFICES ASSUME Init PROVE IInv
  OBVIOUS
<1>1. /\ current = 0 /\ target = 0 /\ word = flags
      /\ flags \in Flags
  <2>1. CASE Rests
    <3>1. unmasked \in BOOLEAN
      BY <2>1 DEF Rests
    <3>2. flags = [reset |-> FALSE, next |-> FALSE, enabled |-> unmasked]
      BY <2>1 DEF Rests
    <3>3. flags \in Flags
      BY <3>1, <3>2 DEF Flags
    <3> QED BY <3>3 DEF Init
  <2>2. CASE init
    <3>1. flags \in Flags
      BY <2>2 DEF init, Flags
    <3> QED BY <3>1 DEF Init
  <2> QED BY <2>1, <2>2 DEF Init
<1>2. /\ sets = [n \in {0, 1} |-> sets[n]]
      /\ sets[0].done /\ sets[1].done
  <2>1. CASE Rests
    <3>1. sets = [n \in {0, 1} |-> IF n = 0 THEN Built(duty) ELSE Empty]
      BY <2>1 DEF Rests
    <3> QED BY <3>1, WhatIsBuilt
  <2>2. CASE init
    <3>1. sets = [n \in {0, 1} |-> Empty]
      BY <2>2 DEF init
    <3> QED BY <3>1, WhatIsBuilt
  <2> QED BY <2>1, <2>2 DEF Init
<1>3. go # "build"
  BY DEF Init, Rests, init
<1> QED BY <1>1, <1>2, <1>3 DEF IInv, TypeInv, BuildInv

(* The task: only choose and build touch the sets.                         *)
LEMMA ChoosePreserves == IInv /\ pwm_go_choose => IInv'
<1> SUFFICES ASSUME IInv, pwm_go_choose PROVE IInv'
  OBVIOUS
<1> USE DEF IInv, TypeInv, BuildInv
<1>1. /\ go = "choose" /\ go' = "build" /\ ~inside /\ ~inside'
      /\ target' = IF InPlace THEN current ELSE 1 - current
      /\ unmasked' = ~InPlace /\ current' = current /\ word' = word
      /\ flags' = [flags EXCEPT !.enabled = ~InPlace]
      /\ sets' = [sets EXCEPT ![target'].done = FALSE]
  BY DEF pwm_go_choose, Step, NoIsr, isrvars
<1>2. InPlace \in BOOLEAN /\ (~InPlace => ~flags.next)
  BY DEF InPlace
<1>3. target' \in {0, 1}
  BY <1>1
<1>4. flags' \in Flags /\ flags'.next = flags.next
  BY <1>1, <1>2 DEF Flags
<1>5. sets' = [n \in {0, 1} |-> sets'[n]] /\ sets'[1 - target'] = sets[1 - target']
  <2>1. 1 - target' \in {0, 1} /\ 1 - target' # target'
    BY <1>3
  <2> QED BY <1>1, <1>3, <2>1
<1>6. sets'[1 - target'].done
  BY <1>1, <1>3, <1>5
<1>7. target' = current' => ~unmasked' /\ ~inside'
  <2>1. CASE InPlace
    BY <1>1, <2>1
  <2>2. CASE ~InPlace
    <3>1. target' = 1 - current /\ current' = current
      BY <1>1, <2>2
    <3> QED BY <3>1
  <2> QED BY <2>1, <2>2
<1>8. target' # current' => ~flags'.next
  BY <1>1, <1>2, <1>4
<1> QED BY <1>1, <1>3, <1>4, <1>5, <1>6, <1>7, <1>8

LEMMA BuildPreserves == IInv /\ pwm_go_build => IInv'
<1> SUFFICES ASSUME IInv, pwm_go_build PROVE IInv'
  OBVIOUS
<1> USE DEF IInv, TypeInv, BuildInv
<1>1. /\ go = "build" /\ go' # "build"
      /\ sets' = [sets EXCEPT ![target] = Built(duty)]
      /\ UNCHANGED <<current, target, flags, word>>
  BY DEF pwm_go_build, Step
<1>2. /\ sets' = [n \in {0, 1} |-> sets'[n]]
      /\ sets'[target] = Built(duty) /\ sets'[1 - target] = sets[1 - target]
  <2>1. 1 - target \in {0, 1} /\ 1 - target # target
    OBVIOUS
  <2>2. DOMAIN sets = {0, 1}
    OBVIOUS
  <2>3. sets' = [n \in {0, 1} |-> sets'[n]]
    BY <1>1, <2>2
  <2> QED BY <1>1, <2>1, <2>2, <2>3
<1>3. sets'[0].done /\ sets'[1].done
  BY <1>1, <1>2, WhatIsBuilt
<1> QED BY <1>1, <1>2, <1>3

LEMMA FlagsPreserve ==
  IInv /\ (pwm_go_read \/ pwm_go_off \/ pwm_go_here \/ pwm_go_next) => IInv'
<1> SUFFICES ASSUME IInv, pwm_go_read \/ pwm_go_off \/ pwm_go_here \/ pwm_go_next
             PROVE  IInv'
  OBVIOUS
<1>1. /\ go # "build" /\ go' # "build"
      /\ UNCHANGED <<sets, current, target>>
  BY DEF pwm_go_read, pwm_go_off, pwm_go_here, pwm_go_next, Load, Store, Step
<1>2. flags \in Flags /\ word \in Flags
  BY DEF IInv, TypeInv
<1>3. flags' \in Flags /\ word' \in Flags
  <2>1. CASE pwm_go_read
    BY <1>2, <2>1 DEF pwm_go_read
  <2>2. CASE pwm_go_off
    BY <1>2, <2>2 DEF pwm_go_off, Flags
  <2>3. CASE pwm_go_here
    BY <1>2, <2>3 DEF pwm_go_here, Reset, Flags
  <2>4. CASE pwm_go_next
    <3>1. /\ [word EXCEPT !.reset = FALSE] \in Flags
          /\ [word EXCEPT !.next = TRUE] \in Flags
      BY <1>2 DEF Flags
    <3>2. CASE word' = flags /\ UNCHANGED flags
      BY <1>2, <3>2
    <3>3. CASE UNCHANGED word /\ flags' = [word EXCEPT !.reset = FALSE]
      BY <1>2, <3>1, <3>3
    <3>4. CASE UNCHANGED word /\ flags' = [word EXCEPT !.next = TRUE]
      BY <1>2, <3>1, <3>4
    <3> QED BY <2>4, <3>2, <3>3, <3>4 DEF pwm_go_next, Load, Store
  <2> QED BY <2>1, <2>2, <2>3, <2>4
<1> QED BY <1>1, <1>3 DEF IInv, TypeInv, BuildInv

(* The interrupt changes to the other set only when it is told to.         *)
LEMMA IsrPreserves == IInv /\ pwm_isr => IInv'
<1> SUFFICES ASSUME IInv, pwm_isr PROVE IInv'
  OBVIOUS
<1> USE DEF IInv, TypeInv, BuildInv
<1>1. /\ Ready
      /\ UNCHANGED <<sets, go, target, word>>
  BY DEF pwm_isr, pwm_isr_static, pwm_isr_begin, pwm_isr_phase, Unbuilt, govars
<1>2. /\ current' \in {current, Next0}
      /\ flags' \in Flags /\ (flags'.next => flags.next)
  <2>1. CASE pwm_isr_static
    BY <2>1 DEF pwm_isr_static, Flags
  <2>2. CASE pwm_isr_begin
    BY <2>2 DEF pwm_isr_begin, Flags
  <2>3. CASE pwm_isr_phase
    BY <2>3 DEF pwm_isr_phase
  <2> QED BY <2>1, <2>2, <2>3 DEF pwm_isr
<1>3. current' \in {0, 1} /\ (~flags.next => current' = current)
  BY <1>2 DEF Next0
<1>4. CASE go = "build"
  <2>1. target # current
    BY <1>1, <1>4 DEF Ready
  <2>2. ~flags.next /\ ~flags'.next /\ current' = current
    BY <1>2, <1>3, <1>4, <2>1
  <2> QED BY <1>1, <1>2, <1>3, <1>4, <2>1, <2>2
<1>5. CASE go # "build"
  BY <1>1, <1>2, <1>3, <1>5
<1> QED BY <1>4, <1>5

LEMMA StepPreserves == IInv /\ [Next]_vars => IInv'
<1> SUFFICES ASSUME IInv, [Next]_vars PROVE IInv'
  OBVIOUS
<1>1. CASE write_pin \/ io_gpio_pwm1_width_set
  <2>1. /\ go = "idle" /\ go' = "read"
        /\ UNCHANGED <<sets, current, flags, target, word>>
    BY <1>1 DEF write_pin, io_gpio_pwm1_width_set, Written
  <2> QED BY <2>1 DEF IInv, TypeInv, BuildInv
<1>2. CASE pwm_go
  BY <1>2, ChoosePreserves, BuildPreserves, FlagsPreserve DEF pwm_go
<1>3. CASE pwm_isr
  BY <1>3, IsrPreserves
<1>4. CASE UNCHANGED vars
  BY <1>4 DEF vars, govars, isrvars, IInv, TypeInv, BuildInv
<1> QED BY <1>1, <1>2, <1>3, <1>4 DEF Next

LEMMA Whole == IInv => WholeSets
<1> SUFFICES ASSUME IInv, Ready
             PROVE  sets[current].done /\ (flags.next => sets[Next0].done)
  BY DEF WholeSets
<1> USE DEF IInv, TypeInv, BuildInv
<1>1. CASE go = "build"
  <2>1. target # current /\ ~flags.next
    BY <1>1 DEF Ready
  <2>2. current = 1 - target
    BY <2>1
  <2> QED BY <1>1, <2>1, <2>2
<1>2. CASE go # "build"
  <2>1. Next0 \in {0, 1}
    BY DEF Next0
  <2> QED BY <1>2, <2>1
<1> QED BY <1>1, <1>2
-----------------------------------------------------------------------------
(* For any pins, duties and periods the handler, which nothing can hold    *)
(* off but its mask, never reads a set that pwm_go is building             *)
(* (io_gpio.c 477-540, 563-572).                                           *)
THEOREM SetsWhole == Spec => []WholeSets
<1>1. Spec => []IInv
  BY InitEstablishes, StepPreserves, PTL DEF Spec
<1> QED BY <1>1, Whole, PTL
-----------------------------------------------------------------------------
(* How long the pins are on.  First, that the duties of a set can be put   *)
(* in order: by their number, taking the smallest off.                     *)

\* What holds of 0, and of n + 1 when of n, holds of every natural number.
LEMMA CountingUp ==
  ASSUME NEW G, 0 \in G, \A n \in Nat : n \in G => n + 1 \in G
  PROVE  Nat \subseteq G
<1> DEFINE T == Nat \ G
<1> SUFFICES ASSUME T # {} PROVE FALSE
  OBVIOUS
<1>1. PICK n \in T : \A m \in T : <<m, n>> \notin OpToRel(<, Nat)
  BY WFMin, NatLessThanWellFounded, Zenon
<1>2. n \in Nat \ {0}
  OBVIOUS
<1>3. n - 1 \in Nat /\ n - 1 < n
  BY <1>2
<1>4. <<n - 1, n>> \in OpToRel(<, Nat)
  BY <1>2, <1>3 DEF OpToRel
<1>5. n - 1 \in G
  BY <1>1, <1>3, <1>4
<1>6. n \in G
  BY <1>3, <1>5, <1>2
<1> QED BY <1>6

LEMMA Smallest ==
  ASSUME NEW S \in SUBSET Nat, S # {}
  PROVE  \E m \in S : \A x \in S : m <= x
<1>1. PICK m \in S : \A x \in S : <<x, m>> \notin OpToRel(<, Nat)
  BY WFMin, NatLessThanWellFounded, Zenon
<1>2. \A x \in S : ~(x < m)
  BY <1>1 DEF OpToRel
<1> QED BY <1>2

\* f has the members of S in order.
InOrder(f, S) ==
  /\ f \in [1 .. Cardinality(S) -> S]
  /\ \A i, j \in DOMAIN f : i < j => f[i] < f[j]

LEMMA OneMore ==
  ASSUME NEW S \in SUBSET Nat, IsFiniteSet(S), NEW m \in S,
         \A x \in S : m <= x, NEW f, InOrder(f, S \ {m})
  PROVE  \E g : InOrder(g, S)
<1> DEFINE n == Cardinality(S \ {m})
           g == [i \in 1 .. n + 1 |-> IF i = 1 THEN m ELSE f[i - 1]]
<1>1. n \in Nat /\ Cardinality(S) = n + 1
  <2>1. IsFiniteSet(S \ {m}) /\ n = Cardinality(S) - 1
    BY FS_RemoveElement
  <2>2. n \in Nat /\ Cardinality(S) \in Nat
    BY <2>1, FS_CardinalityType
  <2> HIDE DEF n
  <2> QED  BY <2>1, <2>2
<1>2. f \in [1 .. n -> S \ {m}] /\ \A i, j \in 1 .. n : i < j => f[i] < f[j]
  BY DEF InOrder
<1> HIDE DEF n
<1>3. ASSUME NEW i \in 2 .. n + 1
      PROVE  i - 1 \in 1 .. n /\ g[i] = f[i - 1] /\ m < g[i]
  <2>1. i - 1 \in 1 .. n /\ i \in 1 .. n + 1 /\ i # 1
    BY <1>1
  <2>2. f[i - 1] \in S \ {m}
    BY <1>2, <2>1
  <2>3. m < f[i - 1]
    <3>1. f[i - 1] \in Nat /\ m \in Nat /\ m <= f[i - 1] /\ f[i - 1] # m
      BY <2>2
    <3> QED  BY <3>1
  <2> QED  BY <2>1, <2>3
<1>4. g[1] = m
  BY <1>1
<1>5. g \in [1 .. n + 1 -> S]
  <2>1. ASSUME NEW i \in 1 .. n + 1 PROVE (IF i = 1 THEN m ELSE f[i - 1]) \in S
    BY <1>1, <1>2
  <2> QED  BY <2>1
<1>6. ASSUME NEW i \in 1 .. n + 1, NEW j \in 1 .. n + 1, i < j
      PROVE  g[i] < g[j]
  <2>1. j \in 2 .. n + 1
    BY <1>1, <1>6
  <2>2. CASE i = 1
    BY <1>3, <1>4, <2>1, <2>2
  <2>3. CASE i # 1
    <3>1. i \in 2 .. n + 1 /\ i - 1 < j - 1
      BY <1>1, <1>6, <2>3
    <3> HIDE DEF g
    <3> QED  BY <1>2, <1>3, <2>1, <3>1
  <2> QED  BY <2>2, <2>3
<1> HIDE DEF g
<1> QED  BY <1>1, <1>5, <1>6 DEF InOrder

LEMMA OrderExists ==
  ASSUME NEW S \in SUBSET Nat, IsFiniteSet(S)
  PROVE  \E f : InOrder(f, S)
<1> DEFINE Small(n) == {T \in SUBSET Nat : IsFiniteSet(T) /\ Cardinality(T) = n}
           G == {n \in Nat : \A T \in Small(n) : \E f : InOrder(f, T)}
<1>1. 0 \in G
  <2>1. SUFFICES ASSUME NEW T \in Small(0) PROVE \E f : InOrder(f, T)
    OBVIOUS
  <2>2. T = {} /\ Cardinality(T) = 0
    BY FS_EmptySet
  <2>3. InOrder([i \in 1 .. 0 |-> i], T)
    BY <2>2 DEF InOrder
  <2> QED  BY <2>3
<1>2. ASSUME NEW n \in Nat, n \in G PROVE n + 1 \in G
  <2>1. SUFFICES ASSUME NEW T \in Small(n + 1) PROVE \E f : InOrder(f, T)
    OBVIOUS
  <2>2. T # {}
    BY FS_EmptySet
  <2>3. PICK m \in T : \A x \in T : m <= x
    BY <2>2, Smallest
  <2>4. T \ {m} \in Small(n)
    <3>1. IsFiniteSet(T) /\ Cardinality(T) = n + 1
      OBVIOUS
    <3>2. IsFiniteSet(T \ {m}) /\ Cardinality(T \ {m}) = Cardinality(T) - 1
      BY <3>1, FS_RemoveElement, Zenon
    <3> QED  BY <3>1, <3>2
  <2>5. \E f : InOrder(f, T \ {m})
    BY <1>2, <2>4
  <2> HIDE DEF G
  <2> QED  BY <2>3, <2>5, OneMore
<1>3. Nat \subseteq G
  <2> HIDE DEF G
  <2> QED  BY <1>1, <1>2, CountingUp
<1>4. Cardinality(S) \in Nat /\ S \in Small(Cardinality(S))
  BY FS_CardinalityType
<1> QED  BY <1>3, <1>4

LEMMA AscendingIs ==
  ASSUME NEW S \in SUBSET Nat, IsFiniteSet(S)
  PROVE  /\ Cardinality(S) \in Nat
         /\ InOrder(Ascending(S), S)
         /\ \A x \in S : \E i \in 1 .. Cardinality(S) : Ascending(S)[i] = x
<1> DEFINE f == Ascending(S)
           n == Cardinality(S)
<1>1. InOrder(f, S)
  <2>1. \E h \in [1 .. n -> S] : \A i, j \in DOMAIN h : i < j => h[i] < h[j]
    BY OrderExists DEF InOrder
  <2> QED  BY <2>1 DEF Ascending, InOrder
<1>2. n \in Nat
  BY FS_CardinalityType
<1>3. f \in [1 .. n -> S]
  BY <1>1 DEF InOrder
<1>4. f \in Injection(1 .. n, S)
  <2>1. ASSUME NEW i \in 1 .. n, NEW j \in 1 .. n, f[i] = f[j] PROVE i = j
    <3> HIDE DEF f
    <3>1. f[i] \in Nat /\ \A k, l \in 1 .. n : k < l => f[k] < f[l]
      BY <1>1, <1>3 DEF InOrder
    <3>2. ~(i < j) /\ ~(j < i)
      BY <2>1, <3>1
    <3> QED  BY <1>2, <3>2
  <2> HIDE DEF f
  <2> QED  BY <1>3, <2>1 DEF Injection, IsInjective
<1>5. Cardinality(1 .. n) = n
  BY <1>2, FS_Interval
<1>6. f \in Surjection(1 .. n, S)
  BY <1>4, <1>5, FS_Injection
<1>7. \A x \in S : \E i \in 1 .. n : f[i] = x
  BY <1>6 DEF Surjection, Range
<1> QED  BY <1>1, <1>2, <1>7
-----------------------------------------------------------------------------
(* A set of n phases after the first one, at the times that steps has:     *)
(* the delays are the differences, and a pin is cleared at its duty.       *)
Last(s) == s.amount - 1

Times(s, steps) ==
  /\ Last(s) \in Nat \ {0}
  /\ steps \in [1 .. Last(s) -> Nat] /\ steps[1] > 0
  /\ \A i, j \in 1 .. Last(s) : i < j => steps[i] < steps[j]
  /\ DOMAIN s.delay = 0 .. Last(s) /\ s.delay[0] = steps[1]
  /\ \A i \in 1 .. Last(s) - 1 : s.delay[i] = steps[i + 1] - steps[i]

Clears(s, steps) ==
  /\ DOMAIN s.clear = 1 .. Last(s)
  /\ s.all \subseteq Pins
  /\ s.duty1 = {p \in s.all : s.duty[p] = 1}
  /\ s.noduty1 \subseteq s.all /\ s.all \ s.duty1 \subseteq s.noduty1
  /\ \A p \in s.all : \E j \in 1 .. Last(s) : s.duty[p] = steps[j]
  /\ \A p \in s.all, j \in 1 .. Last(s) :
       p \in s.clear[j] <=> s.duty[p] = steps[j]

\* s has these fields at least.
Fields(s) ==
  {"amount", "delay", "clear", "all", "noduty1", "duty1", "duty", "done"}
    \subseteq DOMAIN s

Phased(s) ==
  /\ Fields(s) /\ s.amount \in Nat
  /\ s.amount > 0 => \E steps : Times(s, steps) /\ Clears(s, steps)

LEMMA KeptDuties ==
  ASSUME NEW d \in [Pins -> Nat]
  PROVE  LET S == {d[p] : p \in Kept(d)}
         IN  /\ Kept(d) \subseteq Pins /\ S \in SUBSET (Nat \ {0})
             /\ IsFiniteSet(S) /\ (Kept(d) # {} => Cardinality(S) \in Nat \ {0})
<1> DEFINE S == {d[p] : p \in Kept(d)}
           f == [p \in Kept(d) |-> d[p]]
<1>1. Kept(d) \subseteq Pins /\ \A p \in Kept(d) : d[p] > 0 /\ d[p] \in Nat
  BY DEF Kept, Active
<1>2. IsFiniteSet(Kept(d))
  <2>1. IsFiniteSet(0 .. 15)
    <3>1. 0 \in Int /\ 15 \in Int
      OBVIOUS
    <3> QED  BY <3>1, FS_Interval, Zenon
  <2>2. Kept(d) \subseteq 0 .. 15
    BY <1>1, PwmAssumption
  <2> QED  BY <2>1, <2>2, FS_Subset
<1>3. f \in Surjection(Kept(d), S)
  BY DEF Surjection
<1>4. IsFiniteSet(S)
  BY <1>2, <1>3, FS_Surjection
<1>5. Kept(d) # {} => Cardinality(S) \in Nat \ {0}
  <2>1. Cardinality(S) \in Nat /\ (Cardinality(S) = 0 => S = {})
    BY <1>4, FS_CardinalityType, FS_EmptySet
  <2>2. Kept(d) # {} => S # {}
    OBVIOUS
  <2> HIDE DEF S
  <2> QED  BY <2>1, <2>2
<1> QED  BY <1>1, <1>4, <1>5

\* The sets that pwm_go builds are of this shape.
LEMMA BuiltIsPhased == ASSUME NEW d \in [Pins -> Nat] PROVE Phased(Built(d))
<1> DEFINE kept == Kept(d)
           S == {d[p] : p \in kept}
           steps == Ascending(S)
           n == Cardinality(S)
           s == Built(d)
<1>0. Fields(s)
  BY DEF Built, Fields
<1>1. CASE kept = {}
  BY <1>0, <1>1 DEF Built, Phased
<1> SUFFICES ASSUME kept # {}
             PROVE  s.amount \in Nat /\ Times(s, steps) /\ Clears(s, steps)
  BY <1>0, <1>1 DEF Phased
<1>2. /\ kept \subseteq Pins /\ S \in SUBSET (Nat \ {0}) /\ IsFiniteSet(S)
      /\ n \in Nat \ {0}
  BY KeptDuties
<1>3. /\ InOrder(steps, S) /\ \A x \in S : \E i \in 1 .. n : steps[i] = x
  BY <1>2, AscendingIs
<1>4. /\ steps \in [1 .. n -> S]
      /\ \A i, j \in 1 .. n : i < j => steps[i] < steps[j]
  BY <1>3 DEF InOrder
<1>5. Len(steps) = n
  BY <1>2, <1>4
<1>6. /\ s.amount = n + 1
      /\ s.delay = [i \in 0 .. n |-> Delay(steps, i)]
      /\ s.clear = [i \in 1 .. n |-> {p \in kept : d[p] = steps[i]}]
      /\ s.all = kept /\ s.duty = d
      /\ s.duty1 = {p \in kept : d[p] = 1}
      /\ s.noduty1 \in {kept, kept \ s.duty1}
  BY <1>5 DEF Built
<1>7. \A p \in kept : d[p] \in S
  OBVIOUS
<1> HIDE DEF s, steps, n, S, kept
<1>8. Last(s) = n
  BY <1>2, <1>6 DEF Last
<1>9. Times(s, steps)
  <2>1. \A i \in 1 .. n : steps[i] \in Nat \ {0}
    BY <1>2, <1>4
  <2>2. s.delay[0] = steps[1]
    <3>1. s.delay[0] = Delay(steps, 0)
      BY <1>2, <1>6
    <3>2. Delay(steps, 0) = steps[0 + 1] - 0
      BY <1>2, <1>5 DEF Delay
    <3> QED  BY <1>2, <2>1, <3>1, <3>2
  <2>3. \A i \in 1 .. n - 1 : s.delay[i] = steps[i + 1] - steps[i]
    BY <1>2, <1>5, <1>6 DEF Delay
  <2>4. steps \in [1 .. n -> Nat] /\ steps[1] > 0
    BY <1>2, <1>4, <2>1
  <2> QED  BY <1>2, <1>4, <1>6, <1>8, <2>2, <2>3, <2>4 DEF Times
<1>10. Clears(s, steps)
  <2>1. \A p \in kept : \E j \in 1 .. n : d[p] = steps[j]
    BY <1>3, <1>7
  <2> QED  BY <1>2, <1>6, <1>8, <2>1 DEF Clears
<1> QED  BY <1>2, <1>6, <1>9, <1>10

(* At phase k of a cycle: a pin of the duty at steps[j] is on until then   *)
(* (not at all if its duty is 1) and has been on for that long, or until   *)
(* now, less the delays of one.                                            *)
Ones(s, k) == {i \in 0 .. k - 1 : s.delay[i] = 1}

Least(j, k) == IF j < k THEN j ELSE k

\* o: the pins that are on, t: how long they have been.
Measured(o, t, s, steps, k) ==
  \A p \in s.all, j \in 1 .. Last(s) : s.duty[p] = steps[j] =>
    /\ p \in o <=> k <= j /\ s.duty[p] # 1
    /\ t[p] = steps[Least(j, k)] - Cardinality(Ones(s, Least(j, k)))

CycleInv ==
  LET s == sets[current]
  IN  whole /\ s.done /\ phase \in 1 .. s.amount =>
        \E steps : /\ Times(s, steps) /\ Clears(s, steps)
                   /\ Measured(out, ticks, s, steps, phase)

DutyInv ==
  /\ duty \in [Pins -> Nat] /\ period \in Periods /\ phase \in Nat
  /\ Phased(sets[0]) /\ Phased(sets[1])

ExactInv == IInv /\ DutyInv /\ CycleInv
-----------------------------------------------------------------------------
LEMMA CountOnes ==
  ASSUME NEW s, NEW k \in Nat
  PROVE  /\ Cardinality(Ones(s, k)) \in Nat
         /\ Cardinality(Ones(s, k + 1)) =
              Cardinality(Ones(s, k)) + IF s.delay[k] = 1 THEN 1 ELSE 0
<1>1. IsFiniteSet(Ones(s, k))
  <2>1. IsFiniteSet(0 .. k - 1)
    BY FS_Interval
  <2> QED  BY <2>1, FS_Subset DEF Ones
<1>2. Cardinality(Ones(s, k)) \in Nat
  BY <1>1, FS_CardinalityType
<1>3. CASE s.delay[k] = 1
  <2>1. Ones(s, k + 1) = Ones(s, k) \cup {k} /\ k \notin Ones(s, k)
    BY <1>3 DEF Ones
  <2> QED  BY <1>1, <1>2, <1>3, <2>1, FS_AddElement
<1>4. CASE s.delay[k] # 1
  <2>1. Ones(s, k + 1) = Ones(s, k)
    BY <1>4 DEF Ones
  <2> QED  BY <1>2, <1>4, <2>1
<1> QED  BY <1>2, <1>3, <1>4

LEMMA FirstOnes ==
  ASSUME NEW s
  PROVE  Cardinality(Ones(s, 1)) = IF s.delay[0] = 1 THEN 1 ELSE 0
<1>1. Ones(s, 0) = {}
  BY DEF Ones
<1>2. Cardinality(Ones(s, 0)) = 0
  BY <1>1, FS_EmptySet
<1>3. Cardinality(Ones(s, 0 + 1)) = 0 + IF s.delay[0] = 1 THEN 1 ELSE 0
  BY <1>2, CountOnes
<1> QED  BY <1>3

\* What is waited for a delay of at least one.
LEMMA WaitedFor ==
  ASSUME NEW d \in Nat \ {0}
  PROVE  Waited(d) = d - IF d = 1 THEN 1 ELSE 0
BY DEF Waited

\* The first phase: all are on, but for those of duty 1.
LEMMA FirstPhase ==
  ASSUME NEW s, NEW steps, Times(s, steps), Clears(s, steps),
         NEW b, NEW set \in {s.all, s.noduty1}, NEW o, o = (b \cup set) \ s.duty1,
         NEW t, \A p \in Pins : t[p] = IF p \in o THEN Waited(s.delay[0]) ELSE 0
  PROVE  Measured(o, t, s, steps, 1)
<1>1. SUFFICES ASSUME NEW p \in s.all, NEW j \in 1 .. Last(s), s.duty[p] = steps[j]
               PROVE  /\ p \in o <=> s.duty[p] # 1
                      /\ t[p] = steps[1] - Cardinality(Ones(s, 1))
  BY DEF Measured, Least
<1>2. /\ Last(s) \in Nat \ {0} /\ steps \in [1 .. Last(s) -> Nat] /\ steps[1] > 0
      /\ s.delay[0] = steps[1]
      /\ \A i \in 1 .. Last(s) : 1 < i => steps[1] < steps[i]
  BY DEF Times
<1>3. /\ p \in Pins /\ (p \in s.duty1 <=> s.duty[p] = 1)
      /\ (p \notin s.duty1 => p \in set)
  BY DEF Clears
<1>4. p \in o <=> s.duty[p] # 1
  BY <1>3
<1>5. steps[1] \in Nat \ {0}
  BY <1>2
<1>6. Waited(s.delay[0]) = steps[1] - Cardinality(Ones(s, 1))
  BY <1>2, <1>5, WaitedFor, FirstOnes
<1>7. CASE s.duty[p] # 1
  BY <1>3, <1>4, <1>6, <1>7
<1>8. CASE s.duty[p] = 1
  <2>1. steps[j] = 1 /\ ~(steps[1] < steps[j])
    BY <1>1, <1>5, <1>8
  <2>2. j = 1 /\ steps[1] = 1
    BY <1>2, <2>1
  <2>3. Cardinality(Ones(s, 1)) = 1
    BY <1>2, <2>2, FirstOnes
  <2> QED  BY <1>3, <1>4, <1>8, <2>2, <2>3
<1> QED  BY <1>4, <1>7, <1>8

\* And the others: those whose duty it is are off.
LEMMA OtherPhases ==
  ASSUME NEW s, NEW steps, Times(s, steps), Clears(s, steps),
         NEW k \in 1 .. Last(s), NEW o, NEW t, Measured(o, t, s, steps, k),
         NEW on, on = o \ s.clear[k],
         NEW now, \A p \in Pins : now[p] = t[p] + IF p \in on THEN Waited(s.delay[k]) ELSE 0
  PROVE  Measured(on, now, s, steps, k + 1)
<1>1. SUFFICES ASSUME NEW p \in s.all, NEW j \in 1 .. Last(s), s.duty[p] = steps[j]
               PROVE  /\ p \in on <=> k + 1 <= j /\ s.duty[p] # 1
                      /\ now[p] = steps[Least(j, k + 1)]
                                    - Cardinality(Ones(s, Least(j, k + 1)))
  BY DEF Measured
<1>2. /\ Last(s) \in Nat \ {0} /\ steps \in [1 .. Last(s) -> Nat] /\ steps[1] > 0
      /\ \A i, l \in 1 .. Last(s) : i < l => steps[i] < steps[l]
      /\ \A i \in 1 .. Last(s) - 1 : s.delay[i] = steps[i + 1] - steps[i]
  BY DEF Times
<1>3. /\ p \in o <=> k <= j /\ s.duty[p] # 1
      /\ t[p] = steps[Least(j, k)] - Cardinality(Ones(s, Least(j, k)))
  BY <1>1 DEF Measured
<1>4. p \in Pins /\ (p \in s.clear[k] <=> s.duty[p] = steps[k])
  BY DEF Clears
<1>5. steps[k] = steps[j] <=> k = j
  <2>1. steps[k] \in Nat /\ steps[j] \in Nat
    BY <1>2
  <2>2. k < j => steps[k] < steps[j]
    BY <1>2
  <2>3. j < k => steps[j] < steps[k]
    BY <1>2
  <2> QED  BY <1>2, <2>1, <2>2, <2>3
<1>6. p \in on <=> k + 1 <= j /\ s.duty[p] # 1
  BY <1>1, <1>2, <1>3, <1>4, <1>5
<1>7. CASE k + 1 <= j
  <2>1. Least(j, k) = k /\ Least(j, k + 1) = k + 1 /\ k \in 1 .. Last(s) - 1
    BY <1>2, <1>7 DEF Least
  <2>2. steps[1] < steps[j] /\ steps[1] \in Nat /\ steps[j] \in Nat
    BY <1>2, <1>7
  <2>3. p \in on
    BY <1>1, <1>2, <1>6, <1>7, <2>2
  <2>4. /\ s.delay[k] = steps[k + 1] - steps[k] /\ steps[k] < steps[k + 1]
        /\ steps[k] \in Nat /\ steps[k + 1] \in Nat
    BY <1>2, <2>1
  <2>5. s.delay[k] \in Nat \ {0}
    BY <2>4
  <2>6. now[p] = t[p] + Waited(s.delay[k])
    BY <1>4, <2>3
  <2>7. Waited(s.delay[k]) = s.delay[k] - IF s.delay[k] = 1 THEN 1 ELSE 0
    BY <2>5, WaitedFor
  <2>8. /\ Cardinality(Ones(s, k)) \in Nat
        /\ Cardinality(Ones(s, k + 1)) =
             Cardinality(Ones(s, k)) + IF s.delay[k] = 1 THEN 1 ELSE 0
    BY CountOnes
  <2>9. t[p] = steps[k] - Cardinality(Ones(s, k))
    BY <1>3, <2>1
  <2>10. now[p] = steps[k + 1] - Cardinality(Ones(s, k + 1))
    BY <2>4, <2>6, <2>7, <2>8, <2>9
  <2> QED  BY <1>6, <2>1, <2>10
<1>8. CASE ~(k + 1 <= j)
  <2>1. Least(j, k) = j /\ Least(j, k + 1) = j
    BY <1>2, <1>8 DEF Least
  <2>2. p \notin on
    BY <1>6, <1>8
  <2>3. now[p] = t[p] + 0
    BY <1>4, <2>2
  <2>4. t[p] \in Int
    <3>1. Cardinality(Ones(s, j)) \in Nat /\ steps[j] \in Nat
      BY <1>2, CountOnes
    <3> QED  BY <1>3, <2>1, <3>1
  <2> QED  BY <1>3, <1>6, <2>1, <2>3, <2>4
<1> QED  BY <1>7, <1>8

\* The end of a cycle.
LEMMA Exact == ExactInv => CycleExact
<1> DEFINE s == sets[current]
           Missed(p) == {i \in DOMAIN s.delay : s.delay[i] = 1 /\
                           \E j \in DOMAIN s.clear : i < j /\ p \in s.clear[j]}
<1> SUFFICES ASSUME ExactInv, whole, s.done, s.amount > 0, phase = s.amount,
                    NEW p \in s.all
             PROVE  ticks[p] = s.duty[p] - Cardinality(Missed(p))
  BY DEF CycleExact
<1>1. s.amount \in Nat \ {0} /\ phase \in 1 .. s.amount
  BY DEF ExactInv, IInv, TypeInv, DutyInv, Phased
<1>2. PICK steps : /\ Times(s, steps) /\ Clears(s, steps)
                   /\ Measured(out, ticks, s, steps, phase)
  BY <1>1 DEF ExactInv, CycleInv
<1>3. PICK j \in 1 .. Last(s) : s.duty[p] = steps[j]
  BY <1>2 DEF Clears
<1>4. /\ Last(s) \in Nat \ {0} /\ steps \in [1 .. Last(s) -> Nat]
      /\ \A i, l \in 1 .. Last(s) : i < l => steps[i] < steps[l]
      /\ DOMAIN s.delay = 0 .. Last(s) /\ DOMAIN s.clear = 1 .. Last(s)
      /\ phase = Last(s) + 1
  BY <1>1, <1>2 DEF Times, Clears, Last
<1>5. \A l \in 1 .. Last(s) : p \in s.clear[l] <=> l = j
  <2>1. ASSUME NEW l \in 1 .. Last(s) PROVE p \in s.clear[l] <=> l = j
    <3>1. p \in s.clear[l] <=> steps[l] = steps[j]
      BY <1>2, <1>3 DEF Clears
    <3>2. steps[l] \in Nat /\ steps[j] \in Nat
      BY <1>4
    <3>3. (l < j => steps[l] < steps[j]) /\ (j < l => steps[j] < steps[l])
      BY <1>4
    <3> QED  BY <1>4, <3>1, <3>2, <3>3
  <2> QED  BY <2>1
<1>6. Missed(p) = Ones(s, j)
  BY <1>4, <1>5 DEF Ones
<1>7. Least(j, phase) = j
  BY <1>4 DEF Least
<1>8. ticks[p] = steps[j] - Cardinality(Ones(s, j))
  BY <1>2, <1>3, <1>7 DEF Measured
<1> HIDE DEF Missed
<1> QED  BY <1>3, <1>6, <1>8
-----------------------------------------------------------------------------
LEMMA StartsWithDuties ==
  Init => DutyInv /\ CycleInv
<1> SUFFICES ASSUME Init PROVE DutyInv /\ CycleInv
  OBVIOUS
<1>1. period \in Periods /\ period \in Nat \ {0} /\ whole = FALSE /\ duty \in [Pins -> Nat]
  <2>1. period \in Periods /\ period \in Nat \ {0} /\ whole = FALSE
    BY PwmAssumption DEF Init
  <2>2. CASE Rests
    <3>1. PICK start \in Starts :
            duty = [p \in Pins |-> IF start[p] >= period THEN period - 1 ELSE start[p]]
      BY <2>2 DEF Rests
    <3>2. start \in [Pins -> Nat]
      BY PwmAssumption
    <3> QED  BY <2>1, <3>1, <3>2
  <2>3. CASE init
    BY <2>1, <2>3 DEF init
  <2> QED  BY <2>1, <2>2, <2>3 DEF Init
<1>2. Phased(Empty)
  BY DEF Phased, Fields, Empty
<1>3. Phased(Built(duty))
  BY <1>1, BuiltIsPhased
<1>4. sets[0] \in {Empty, Built(duty)} /\ sets[1] = Empty
  BY DEF Init, Rests, init
<1>5. phase \in Nat
  BY <1>2, <1>3, <1>4 DEF Init, Phased
<1> QED  BY <1>1, <1>2, <1>3, <1>4, <1>5 DEF DutyInv, CycleInv

\* Where the handler does not come, and the current set stays what it is,
\* is not whole any more, or is being built.
LEMMA TaskKeepsCycle ==
  ASSUME CycleInv, UNCHANGED <<current, phase, out, ticks>>,
         whole' => whole,
         whole' /\ sets'[current].done => sets'[current] = sets[current]
  PROVE  CycleInv'
BY DEF CycleInv

LEMMA ChooseKeeps ==
  ASSUME ExactInv, pwm_go_choose PROVE DutyInv' /\ CycleInv'
<1>1. /\ target' \in {0, 1} /\ duty' = Clamped
      /\ sets' = [sets EXCEPT ![target'].done = FALSE]
      /\ UNCHANGED <<period, current, whole, phase, out, ticks>>
  BY DEF ExactInv, IInv, TypeInv, pwm_go_choose, NoIsr, isrvars
<1>2. /\ DOMAIN sets = {0, 1} /\ current \in {0, 1}
  BY DEF ExactInv, IInv, TypeInv
<1>3. \A n \in {0, 1} : sets'[n] = IF n = target' THEN [sets[n] EXCEPT !.done = FALSE]
                                   ELSE sets[n]
  BY <1>1, <1>2
<1>4. duty' \in [Pins -> Nat] /\ period' \in Periods
  <2>1. duty \in [Pins -> Nat] /\ period \in Nat \ {0} /\ period \in Periods
    BY PwmAssumption DEF ExactInv, DutyInv
  <2> QED  BY <1>1, <2>1 DEF Clamped
<1>5. \A n \in {0, 1} : Phased(sets'[n])
  <2>1. ASSUME NEW s, Phased(s) PROVE Phased([s EXCEPT !.done = FALSE])
    <3> DEFINE t == [s EXCEPT !.done = FALSE]
    <3>1. /\ t.amount = s.amount /\ t.delay = s.delay /\ t.clear = s.clear
          /\ t.all = s.all /\ t.noduty1 = s.noduty1 /\ t.duty1 = s.duty1
          /\ t.duty = s.duty
      BY <2>1 DEF Phased, Fields
    <3>2. Fields(t)
      BY <2>1 DEF Phased, Fields
    <3> HIDE DEF t
    <3>3. \A steps : /\ Times(s, steps) => Times(t, steps)
                     /\ Clears(s, steps) => Clears(t, steps)
      BY <3>1 DEF Times, Clears, Last
    <3>4. Phased(t)
      BY <2>1, <3>1, <3>2, <3>3 DEF Phased
    <3> QED  BY <3>4 DEF t
  <2> QED  BY <1>3, <2>1 DEF ExactInv, DutyInv
<1>6. CycleInv'
  <2>1. sets'[current].done => sets'[current] = sets[current]
    <3>1. sets'[target'].done = FALSE
      <4>1. Fields(sets[target'])
        BY <1>1 DEF ExactInv, DutyInv, Phased
      <4>2. [sets[target'] EXCEPT !.done = FALSE].done = FALSE
        BY <4>1 DEF Fields
      <4> QED  BY <1>1, <1>3, <4>2
    <3> QED  BY <1>2, <1>3, <3>1
  <2> QED  BY <1>1, <2>1, TaskKeepsCycle DEF ExactInv
<1>7. phase' \in Nat
  BY <1>1 DEF ExactInv, DutyInv
<1> QED  BY <1>4, <1>5, <1>6, <1>7 DEF DutyInv

LEMMA BuildKeeps ==
  ASSUME ExactInv, pwm_go_build PROVE DutyInv' /\ CycleInv'
<1>1. /\ sets' = [sets EXCEPT ![target] = Built(duty)]
      /\ whole' = (whole /\ target # current)
      /\ UNCHANGED <<duty, period, current, phase, out, ticks>>
  BY DEF pwm_go_build, NoIsr, isrvars
<1>2. /\ DOMAIN sets = {0, 1} /\ current \in {0, 1} /\ target \in {0, 1}
  BY DEF ExactInv, IInv, TypeInv
<1>3. \A n \in {0, 1} : sets'[n] = IF n = target THEN Built(duty) ELSE sets[n]
  BY <1>1, <1>2
<1>4. \A n \in {0, 1} : Phased(sets'[n])
  BY <1>3, BuiltIsPhased DEF ExactInv, DutyInv
<1>5. CycleInv'
  <2>1. whole' => whole /\ sets'[current] = sets[current]
    BY <1>1, <1>2, <1>3
  <2> QED  BY <1>1, <2>1, TaskKeepsCycle DEF ExactInv
<1> QED  BY <1>1, <1>4, <1>5 DEF ExactInv, DutyInv

LEMMA WriteKeeps ==
  ASSUME ExactInv, write_pin \/ io_gpio_pwm1_width_set PROVE DutyInv' /\ CycleInv'
<1>1. UNCHANGED <<sets, current, whole, phase, out, ticks>>
  BY DEF write_pin, io_gpio_pwm1_width_set, Written, isrvars
<1>2. /\ duty \in [Pins -> Nat] /\ period \in Nat \ {0} /\ period \in Periods
      /\ Duties \subseteq Nat
  BY PwmAssumption DEF ExactInv, DutyInv
<1>3. duty' \in [Pins -> Nat] /\ period' \in Periods
  <2>1. CASE write_pin
    <3>1. PICK p \in Pins, d \in Duties :
            duty' = [duty EXCEPT ![p] = IF d >= period THEN period - 1 ELSE d]
      BY <2>1 DEF write_pin
    <3> QED  BY <1>2, <2>1, <3>1 DEF write_pin
  <2>2. CASE io_gpio_pwm1_width_set
    BY <1>2, <2>2 DEF io_gpio_pwm1_width_set
  <2> QED  BY <2>1, <2>2
<1>4. CycleInv'
  BY <1>1, TaskKeepsCycle DEF ExactInv
<1> QED  BY <1>1, <1>3, <1>4 DEF ExactInv, DutyInv

LEMMA FlagsKeep ==
  ASSUME ExactInv, pwm_go_read \/ pwm_go_off \/ pwm_go_here \/ pwm_go_next
  PROVE  DutyInv' /\ CycleInv'
<1>1. UNCHANGED <<duty, period, sets, current, whole, phase, out, ticks>>
  BY DEF pwm_go_read, pwm_go_off, pwm_go_here, pwm_go_next, Load, Store, NoIsr, isrvars
<1>2. CycleInv'
  BY <1>1, TaskKeepsCycle DEF ExactInv
<1> QED  BY <1>1, <1>2 DEF ExactInv, DutyInv

\* A cycle begins with the set that is current then.
LEMMA BeginKeeps ==
  ASSUME ExactInv, pwm_isr_begin PROVE CycleInv'
<1> DEFINE s == sets[Next0]
<1>1. /\ s.amount >= 2
      /\ Wait(s, 0, [p \in Pins |-> 0])
      /\ current' = Next0 /\ sets' = sets
  BY DEF pwm_isr_begin, Unbuilt
<1>2. PICK set \in {s.all, s.noduty1} : out' = (Static(s, out) \cup set) \ s.duty1
  BY DEF pwm_isr_begin
<1>3. Next0 \in {0, 1}
  BY DEF ExactInv, IInv, TypeInv, Next0
<1>4. PICK steps : Times(s, steps) /\ Clears(s, steps)
  BY <1>1, <1>3 DEF ExactInv, DutyInv, Phased
<1>5. /\ phase' = 1
      /\ \A p \in Pins : ticks'[p] = IF p \in out' THEN Waited(s.delay[0]) ELSE 0
  <2>1. phase' = 0 + 1
    BY <1>1 DEF Wait
  <2>2. ASSUME NEW p \in Pins
        PROVE  ticks'[p] = 0 + IF p \in out' THEN Waited(s.delay[0]) ELSE 0
    BY <1>1 DEF Wait
  <2>3. Waited(s.delay[0]) \in Int
    BY <1>4, WaitedFor DEF Times, Waited
  <2> QED  BY <2>1, <2>2, <2>3
<1> HIDE DEF s
<1>6. Measured(out', ticks', s, steps, 1)
  BY <1>2, <1>4, <1>5, FirstPhase
<1>7. sets'[current'] = s
  BY <1>1 DEF s
<1> QED  BY <1>4, <1>5, <1>6, <1>7, Zenon DEF CycleInv

\* And goes on with it.
LEMMA PhaseKeeps ==
  ASSUME ExactInv, pwm_isr_phase PROVE CycleInv'
<1> DEFINE s == sets[current]
<1>1. /\ ~Begins /\ out' = out \ s.clear[phase] /\ Wait(s, phase, ticks)
      /\ sets' = sets /\ current' = current /\ whole' = whole
  BY DEF pwm_isr_phase, Unbuilt
<1>2. /\ phase' = phase + 1
      /\ \A p \in Pins : ticks'[p] = ticks[p] + IF p \in out' THEN Waited(s.delay[phase]) ELSE 0
  BY <1>1 DEF Wait
<1>3. SUFFICES ASSUME whole, s.done, phase' \in 1 .. s.amount
               PROVE  \E steps : /\ Times(s, steps) /\ Clears(s, steps)
                                 /\ Measured(out', ticks', s, steps, phase')
  BY <1>1 DEF CycleInv
<1>4. s.amount \in Nat /\ phase \in Nat
  BY DEF ExactInv, IInv, TypeInv, DutyInv, Phased
<1>5. phase \in 1 .. s.amount - 1
  BY <1>1, <1>4 DEF Begins
<1>6. PICK steps : /\ Times(s, steps) /\ Clears(s, steps)
                   /\ Measured(out, ticks, s, steps, phase)
  BY <1>3, <1>4, <1>5 DEF ExactInv, CycleInv
<1>7. phase \in 1 .. Last(s)
  BY <1>5 DEF Last
<1> HIDE DEF s
<1>8. Measured(out', ticks', s, steps, phase + 1)
  BY <1>1, <1>2, <1>6, <1>7, OtherPhases
<1> QED  BY <1>2, <1>6, <1>8

LEMMA IsrKeeps ==
  ASSUME ExactInv, pwm_isr PROVE DutyInv' /\ CycleInv'
<1>1. UNCHANGED <<duty, period, sets>>
  BY DEF pwm_isr, pwm_isr_static, pwm_isr_begin, pwm_isr_phase, Unbuilt
<1>2. CASE pwm_isr_static
  <2>1. phase' = 0
    BY <1>2 DEF pwm_isr_static
  <2> QED  BY <1>1, <2>1 DEF ExactInv, DutyInv, CycleInv
<1>3. CASE pwm_isr_begin \/ pwm_isr_phase
  <2>1. phase' \in Nat
    BY <1>3 DEF ExactInv, DutyInv, pwm_isr_begin, pwm_isr_phase, Wait
  <2> QED  BY <1>1, <1>3, <2>1, BeginKeeps, PhaseKeeps DEF ExactInv, DutyInv
<1> QED  BY <1>2, <1>3 DEF pwm_isr

LEMMA ExactKept == ExactInv /\ [Next]_vars => DutyInv' /\ CycleInv'
<1> SUFFICES ASSUME ExactInv, [Next]_vars PROVE DutyInv' /\ CycleInv'
  OBVIOUS
<1>1. CASE UNCHANGED vars
  BY <1>1 DEF vars, govars, isrvars, ExactInv, DutyInv, CycleInv
<1>2. CASE Next
  BY <1>2, WriteKeeps, FlagsKeep, ChooseKeeps, BuildKeeps, IsrKeeps
     DEF Next, pwm_go
<1> QED  BY <1>1, <1>2

(* For any pins, duties and periods, in a cycle of a set that was not      *)
(* rebuilt meanwhile every pin is on for its duty, less a tick for every   *)
(* step of one on the way (io_gpio.c 497-530, 600-706).                    *)
THEOREM CyclesExact == Spec => []CycleExact
<1>1. Init => ExactInv
  BY InitEstablishes, StartsWithDuties DEF ExactInv
<1>2. ExactInv /\ [Next]_vars => ExactInv'
  BY StepPreserves, ExactKept DEF ExactInv
<1> QED  BY <1>1, <1>2, Exact, PTL DEF Spec
=============================================================================
