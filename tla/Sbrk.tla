-------------------------------- MODULE Sbrk --------------------------------
(***************************************************************************)
(* The program break of src/nolibc/sysdeps_solo5.c: _nolibc_init() is told *)
(* by the Solo5 startup code where the heap is, and sbrk() moves the break *)
(* inside it for dlmalloc.  The heap and the stack share one region, the   *)
(* stack growing down towards the break; nothing but the comparison with   *)
(* the address of a local variable, made when sbrk() is called, keeps them *)
(* apart.                                                                  *)
(*                                                                         *)
(* Addresses are uintptr_t: arithmetic on them wraps at AddrSpace.  The    *)
(* unit of an address is left open (bytes, or dlmalloc's 16-byte granules  *)
(* in the modules that instantiate this one).                              *)
(***************************************************************************)
EXTENDS Integers

CONSTANTS
  AddrSpace,   (* 2^w, one more than the largest uintptr_t                 *)
  GuardLimit,  (* 0x100000: the gap kept below the stack in a large heap   *)
  Layouts,     (* the <<heap_start, heap_size>> a loader may hand over     *)
  StackAddrs,  (* the addresses &prev may have when sbrk() is called       *)
  Increments   (* the intptr_t arguments sbrk() may be called with         *)

VARIABLES
  sbrk_start, sbrk_end, sbrk_cur, sbrk_guard_size,  (* the static variables *)
  sp,          (* the depth of the stack: where the next call's &prev is    *)
  inited       (* _nolibc_init() has run                                    *)

layoutVars == <<sbrk_start, sbrk_end, sbrk_guard_size, inited>>
vars == <<sbrk_start, sbrk_end, sbrk_cur, sbrk_guard_size, sp, inited>>

HalfSpace == AddrSpace \div 2
MFAIL == -1        (* the all-ones pointer: not the address of any break *)

ASSUME SpaceAssumption ==
  AddrSpace \in Nat /\ AddrSpace > 1 /\ GuardLimit \in Nat

(* Solo5's contract: the heap is a range of addresses that does not reach   *)
(* the end of the address space and is no longer than half of it.           *)
ASSUME LayoutAssumption ==
  \A l \in Layouts : /\ l \in Nat \X Nat
                     /\ l[1] + l[2] < AddrSpace
                     /\ l[2] <= HalfSpace

(* The stack is in the address space and, the image being linked above the  *)
(* first megabyte, more than the guard away from address 0.                 *)
ASSUME StackAssumption ==
  /\ StackAddrs # {}
  /\ \A a \in StackAddrs : a \in Nat /\ GuardLimit <= a /\ a < AddrSpace

(* "dlmalloc guarantees increment values less than half of size_t"          *)
ASSUME IncrementAssumption ==
  \A i \in Increments : i \in Int /\ -HalfSpace < i /\ i < HalfSpace

-----------------------------------------------------------------------------

(* A sum of a uintptr_t and an intptr_t, wrapped once around the space.     *)
Wrap(a) ==
  IF a < 0 THEN a + AddrSpace ELSE IF a >= AddrSpace THEN a - AddrSpace ELSE a

GuardSize(size) == IF size >= GuardLimit THEN GuardLimit ELSE size \div 2

(* uintptr_t max = (uintptr_t)&prev - sbrk_guard_size                       *)
StackLimit == Wrap(sp - sbrk_guard_size)

(* Mutants of sbrk()'s comparisons: a forgotten guard, an end one too far,  *)
(* a forgotten and a too strict lower bound.                                *)
NoGuardGrantable(brk) == brk < sbrk_end /\ brk >= sbrk_start
LateEndGrantable(brk) == brk < StackLimit /\ brk <= sbrk_end /\ brk >= sbrk_start
NoStartGrantable(brk) == brk < StackLimit /\ brk < sbrk_end
StrictStartGrantable(brk) == brk < StackLimit /\ brk < sbrk_end /\ brk > sbrk_start

(* The three comparisons sbrk() makes before it accepts a new break.        *)
Grantable(brk) == brk < StackLimit /\ brk < sbrk_end /\ brk >= sbrk_start

(* A mutant: the sum kept in a signed integer, only its upper bounds tested.*)
SignedBreakAfter(cur, increment) ==
  IF cur + increment < StackLimit /\ cur + increment < sbrk_end
  THEN cur + increment ELSE cur

(* The break after a call of sbrk(increment) made when it is at cur.        *)
BreakAfter(cur, increment) ==
  LET brk == Wrap(cur + increment) IN IF Grantable(brk) THEN brk ELSE cur

(* What that call returns: the previous break, or MFAIL.             *)
SbrkReturns(cur, increment) ==
  IF Grantable(Wrap(cur + increment)) THEN cur ELSE MFAIL

Init ==
  /\ sbrk_start = 0 /\ sbrk_end = 0 /\ sbrk_cur = 0 /\ sbrk_guard_size = 0
  /\ sp \in StackAddrs
  /\ inited = FALSE

(* _nolibc_init(heap_start, heap_size), up to its first allocation          *)
NolibcInit(layout) ==
  /\ ~inited
  /\ inited' = TRUE
  /\ sbrk_guard_size' = GuardSize(layout[2])
  /\ sbrk_start' = layout[1]
  /\ sbrk_cur' = layout[1]
  /\ sbrk_end' = Wrap(layout[1] + layout[2])
  /\ UNCHANGED sp

(* sbrk(increment)                                                          *)
Sbrk(increment) ==
  /\ sbrk_cur' = BreakAfter(sbrk_cur, increment)
  /\ UNCHANGED <<layoutVars, sp>>

(* The program calls and returns: the next sbrk() runs at another depth.    *)
MoveStack ==
  /\ sp' \in StackAddrs
  /\ UNCHANGED <<layoutVars, sbrk_cur>>

Next ==
  \/ \E layout \in Layouts : NolibcInit(layout)
  \/ \E increment \in Increments : Sbrk(increment)
  \/ MoveStack

Spec == Init /\ [][Next]_vars

-----------------------------------------------------------------------------

TypeOK ==
  /\ inited \in BOOLEAN
  /\ sp \in StackAddrs
  /\ sbrk_start \in 0 .. AddrSpace - 1
  /\ sbrk_end \in 0 .. AddrSpace - 1
  /\ sbrk_cur \in 0 .. AddrSpace - 1
  /\ sbrk_guard_size \in 0 .. GuardLimit

(* The break never leaves the heap, whatever was asked of sbrk(): it is at  *)
(* its start or strictly below its end (so before _nolibc_init(), when the  *)
(* static variables are 0, no call has obtained anything).                  *)
BreakInHeap ==
  /\ sbrk_start <= sbrk_cur
  /\ sbrk_cur = sbrk_start \/ sbrk_cur < sbrk_end
  /\ ~inited => sbrk_cur = 0

(* A call that moves the break moves it by exactly its argument: neither    *)
(* the sum nor the bounds it is compared with has wrapped ("this is safe    *)
(* from overflow").                                                         *)
ExactMove ==
  [][\A i \in Increments : Sbrk(i) => sbrk_cur' \in {sbrk_cur, sbrk_cur + i}]_vars

(* Whenever the break is moved it ends more than the guard below the stack  *)
(* of that moment: "don't let the heap grow to within 1MB of the stack".    *)
GuardAtMove ==
  [][inited /\ sbrk_cur' # sbrk_cur => sbrk_cur' + sbrk_guard_size < sp]_vars

(* What was obtained can be given back, in any amount, as long as the stack *)
(* has not come closer to the break than the guard; sys_trim() counts on    *)
(* it.  (When it has come closer sbrk() refuses to shrink the heap too.)    *)
GiveBack ==
  inited /\ sbrk_cur + sbrk_guard_size < sp /\ sbrk_cur < sbrk_end =>
    \A n \in 0 .. sbrk_cur - sbrk_start :
      SbrkReturns(sbrk_cur, -n) = sbrk_cur /\ BreakAfter(sbrk_cur, -n) = sbrk_cur - n

=============================================================================
