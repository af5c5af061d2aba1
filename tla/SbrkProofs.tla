----------------------------- MODULE SbrkProofs -----------------------------
(***************************************************************************)
(* Proofs about Sbrk for every address space, guard, layout, stack and     *)
(* increment its assumptions admit.  The inductive invariant adds to       *)
(* TypeOK and BreakInHeap that the heap lies in the address space in one   *)
(* piece (its end did not wrap) and is at most half of it: without that    *)
(* bound a large increment could wrap from above the break to an address   *)
(* between sbrk_start and the break, and sbrk() would accept it.           *)
(***************************************************************************)
EXTENDS Sbrk, TLAPS

HeapInSpace ==
  /\ sbrk_start <= sbrk_end
  /\ sbrk_end - sbrk_start <= HalfSpace
  /\ ~inited => sbrk_start = 0 /\ sbrk_end = 0

SbrkInv == TypeOK /\ BreakInHeap /\ HeapInSpace

(* Half of the space is at most half of it, whatever its parity.            *)
LEMMA HalfSpaceBound == HalfSpace \in Nat /\ 2 * HalfSpace <= AddrSpace
  BY SpaceAssumption DEF HalfSpace

(* The guard is never larger than its limit.                                *)
LEMMA GuardBound == \A size \in Nat : GuardSize(size) \in 0 .. GuardLimit
  BY SpaceAssumption DEF GuardSize

(* The limit sbrk() computes from the stack did not wrap below 0.           *)
LEMMA StackLimitExact == TypeOK => StackLimit = sp - sbrk_guard_size
  BY SpaceAssumption, StackAssumption DEF TypeOK, StackLimit, Wrap

(* A granted break is the exact sum, inside the heap and below the stack.   *)
LEMMA GrantExact ==
  ASSUME SbrkInv, NEW i \in Int, -HalfSpace < i, i < HalfSpace,
         Grantable(Wrap(sbrk_cur + i))
  PROVE  /\ inited
         /\ Wrap(sbrk_cur + i) = sbrk_cur + i
         /\ sbrk_start <= sbrk_cur + i
         /\ sbrk_cur + i < sbrk_end
         /\ sbrk_cur + i < sp - sbrk_guard_size
<1>1. StackLimit = sp - sbrk_guard_size
  BY StackLimitExact DEF SbrkInv
<1>2. sbrk_cur \in Int /\ sbrk_start \in Int /\ sbrk_end \in Int
  BY SpaceAssumption DEF SbrkInv, TypeOK
<1>3. inited
  BY SpaceAssumption DEF SbrkInv, TypeOK, HeapInSpace, Grantable, Wrap
<1>4. Wrap(sbrk_cur + i) = sbrk_cur + i
  <2>1. ~(sbrk_cur + i < 0)
    BY HalfSpaceBound, SpaceAssumption
    DEF SbrkInv, TypeOK, BreakInHeap, HeapInSpace, Grantable, Wrap
  <2>2. ~(sbrk_cur + i >= AddrSpace)
    BY HalfSpaceBound, SpaceAssumption
    DEF SbrkInv, TypeOK, BreakInHeap, HeapInSpace, Grantable, Wrap
  <2> QED  BY <2>1, <2>2 DEF Wrap
<1> QED  BY <1>1, <1>3, <1>4 DEF Grantable

-----------------------------------------------------------------------------

(* The static variables start in the invariant.                             *)
LEMMA InitInv == Init => SbrkInv
<1> SUFFICES ASSUME Init PROVE SbrkInv
  OBVIOUS
<1>1. TypeOK
  <2>1. inited \in BOOLEAN /\ sp \in StackAddrs
    BY DEF Init
  <2>2. 0 \in 0 .. AddrSpace - 1 /\ 0 \in 0 .. GuardLimit
    BY SpaceAssumption
  <2> QED  BY <2>1, <2>2 DEF Init, TypeOK
<1>2. BreakInHeap
  BY DEF Init, BreakInHeap
<1>3. HeapInSpace
  BY HalfSpaceBound DEF Init, HeapInSpace
<1> QED  BY <1>1, <1>2, <1>3 DEF SbrkInv

(* Every step of the program and of sbrk() keeps it.                        *)
LEMMA NextInv == SbrkInv /\ [Next]_vars => SbrkInv'
<1> SUFFICES ASSUME SbrkInv, [Next]_vars PROVE SbrkInv'
  OBVIOUS
<1>1. ASSUME NEW layout \in Layouts, NolibcInit(layout) PROVE SbrkInv'
  <2>1. /\ layout[1] \in Nat /\ layout[2] \in Nat
        /\ layout[1] + layout[2] < AddrSpace /\ layout[2] <= HalfSpace
    BY LayoutAssumption
  <2>2. Wrap(layout[1] + layout[2]) = layout[1] + layout[2]
    BY <2>1, SpaceAssumption DEF Wrap
  <2>3. TypeOK'
    BY <1>1, <2>1, <2>2, GuardBound, SpaceAssumption DEF NolibcInit, SbrkInv, TypeOK
  <2>4. BreakInHeap'
    BY <1>1, <2>1 DEF NolibcInit, BreakInHeap
  <2>5. HeapInSpace'
    BY <1>1, <2>1, <2>2 DEF NolibcInit, HeapInSpace
  <2> QED  BY <2>3, <2>4, <2>5 DEF SbrkInv
<1>2. ASSUME NEW i \in Increments, Sbrk(i) PROVE SbrkInv'
  <2>1. UNCHANGED <<layoutVars, sp>> /\ sbrk_cur' = BreakAfter(sbrk_cur, i)
    BY <1>2 DEF Sbrk
  <2>2. CASE Grantable(Wrap(sbrk_cur + i))
    <3>1. i \in Int /\ -HalfSpace < i /\ i < HalfSpace
      BY IncrementAssumption
    <3>2. /\ inited /\ sbrk_cur' = sbrk_cur + i
          /\ sbrk_start <= sbrk_cur' /\ sbrk_cur' < sbrk_end
      BY <2>1, <2>2, <3>1, GrantExact DEF BreakAfter
    <3> QED  BY <2>1, <3>1, <3>2, SpaceAssumption
             DEF SbrkInv, TypeOK, BreakInHeap, HeapInSpace, layoutVars
  <2>3. CASE ~Grantable(Wrap(sbrk_cur + i))
    <3>1. sbrk_cur' = sbrk_cur
      BY <2>1, <2>3 DEF BreakAfter
    <3> QED  BY <2>1, <3>1 DEF SbrkInv, TypeOK, BreakInHeap, HeapInSpace, layoutVars
  <2> QED  BY <2>2, <2>3
<1>3. CASE MoveStack
  BY <1>3 DEF MoveStack, layoutVars, SbrkInv, TypeOK, BreakInHeap, HeapInSpace
<1>4. CASE UNCHANGED vars
  BY <1>4 DEF vars, SbrkInv, TypeOK, BreakInHeap, HeapInSpace
<1> QED  BY <1>1, <1>2, <1>3, <1>4 DEF Next

(* The inductive invariant holds of every behaviour.                        *)
THEOREM SbrkInvariance == Spec => []SbrkInv
<1>1. Init => SbrkInv
  BY InitInv
<1>2. SbrkInv /\ [Next]_vars => SbrkInv'
  BY NextInv
<1> QED  BY <1>1, <1>2, PTL DEF Spec

(* The break never leaves the heap (sbrk()'s comparisons with sbrk_start    *)
(* and sbrk_end).                                                           *)
THEOREM BreakStaysInHeap == Spec => []BreakInHeap
<1>1. SbrkInv => BreakInHeap
  BY DEF SbrkInv
<1> QED  BY <1>1, SbrkInvariance, PTL

(* The static variables and the stack keep their types.                     *)
THEOREM SbrkTypes == Spec => []TypeOK
<1>1. SbrkInv => TypeOK
  BY DEF SbrkInv
<1> QED  BY <1>1, SbrkInvariance, PTL

(* sbrk() is safe from overflow, as its comment says, when the heap is at   *)
(* most half of the address space.                                          *)
THEOREM BreakMovesExactly == Spec => ExactMove
<1>1. SbrkInv => \A i \in Increments : Sbrk(i) => sbrk_cur' \in {sbrk_cur, sbrk_cur + i}
  <2> SUFFICES ASSUME SbrkInv, NEW i \in Increments, Sbrk(i)
               PROVE  sbrk_cur' \in {sbrk_cur, sbrk_cur + i}
    OBVIOUS
  <2>1. i \in Int /\ -HalfSpace < i /\ i < HalfSpace
    BY IncrementAssumption
  <2>2. CASE Grantable(Wrap(sbrk_cur + i))
    BY <2>1, <2>2, GrantExact DEF Sbrk, BreakAfter
  <2>3. CASE ~Grantable(Wrap(sbrk_cur + i))
    BY <2>3 DEF Sbrk, BreakAfter
  <2> QED  BY <2>2, <2>3
<1> QED  BY <1>1, SbrkInvariance, PTL DEF ExactMove

(* The break is only ever moved to an address more than the guard below the *)
(* stack.                                                                   *)
THEOREM BreakKeepsGuard == Spec => GuardAtMove
<1>1. SbrkInv /\ [Next]_vars =>
        (inited /\ sbrk_cur' # sbrk_cur => sbrk_cur' + sbrk_guard_size < sp)
  <2> SUFFICES ASSUME SbrkInv, Next, inited, sbrk_cur' # sbrk_cur
               PROVE  sbrk_cur' + sbrk_guard_size < sp
    BY DEF vars
  <2>1. PICK i \in Increments : Sbrk(i)
    BY DEF Next, NolibcInit, MoveStack
  <2>2. i \in Int /\ -HalfSpace < i /\ i < HalfSpace
    BY IncrementAssumption
  <2>3. Grantable(Wrap(sbrk_cur + i)) /\ sbrk_cur' = Wrap(sbrk_cur + i)
    BY <2>1 DEF Sbrk, BreakAfter
  <2>4. sbrk_cur' < sp - sbrk_guard_size /\ sbrk_cur' \in Int
    BY <2>2, <2>3, GrantExact, SpaceAssumption DEF SbrkInv, TypeOK
  <2> QED  BY <2>4, StackAssumption, SpaceAssumption DEF SbrkInv, TypeOK
<1> QED  BY <1>1, SbrkInvariance, PTL DEF Spec, GuardAtMove

(* Memory can be given back whenever the stack is clear of the guard.       *)
THEOREM BreakGivesBack == Spec => []GiveBack
<1>1. SbrkInv => GiveBack
  <2> SUFFICES ASSUME SbrkInv, inited, sbrk_cur + sbrk_guard_size < sp,
                      sbrk_cur < sbrk_end,
                      NEW n \in 0 .. sbrk_cur - sbrk_start
               PROVE  /\ SbrkReturns(sbrk_cur, -n) = sbrk_cur
                      /\ BreakAfter(sbrk_cur, -n) = sbrk_cur - n
    BY DEF GiveBack
  <2>1. /\ sbrk_cur \in 0 .. AddrSpace - 1 /\ sbrk_start \in 0 .. AddrSpace - 1
        /\ sp \in Nat /\ sbrk_guard_size \in Nat
    BY StackAssumption, SpaceAssumption DEF SbrkInv, TypeOK
  <2>2. Wrap(sbrk_cur + (-n)) = sbrk_cur - n
    BY <2>1, SpaceAssumption DEF Wrap
  <2>3. sbrk_cur - n < sp - sbrk_guard_size
    BY <2>1
  <2>4. sbrk_cur - n < sbrk_end /\ sbrk_cur - n >= sbrk_start
    BY <2>1, SpaceAssumption DEF SbrkInv, TypeOK
  <2>5. Grantable(sbrk_cur - n)
    BY <2>3, <2>4, StackLimitExact DEF Grantable, SbrkInv
  <2> QED  BY <2>2, <2>5 DEF SbrkReturns, BreakAfter
<1> QED  BY <1>1, SbrkInvariance, PTL

=============================================================================
