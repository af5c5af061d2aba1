---------------------------- MODULE StrtodProofs ----------------------------
(***************************************************************************)
(* Proofs about Strtod for every input and every format of numbers.  What  *)
(* the paths compute is left opaque: a proof needs only the labels they    *)
(* lead to.  The inductive invariant says which big integers strtod() owns *)
(* at each label; at ovfl and undfl, which several paths reach with and    *)
(* without them, it is bc.set (the source's bd0 != 0) that tells.          *)
(***************************************************************************)
EXTENDS Strtod, TLAPS

NothingHeld == [b \in Names |-> 0]
AllHeld == [b \in Names |-> 1]
OnlyBd0 == [b \in Names |-> IF b = "bd0" THEN 1 ELSE 0]

(* What strtod() owns at each label.                                        *)
Owned ==
  /\ at \in Labels
  /\ DOMAIN bc = DOMAIN NoWork
  /\ at \in {"scan", "fast", "quick", "many_digits"} => held = NothingHeld /\ bc.set = FALSE
  /\ at = "loop" => held = OnlyBd0 /\ bc.set = TRUE
  /\ at = "compared" => held = AllHeld /\ bc.set = TRUE
  /\ at \in {"bigcomp", "scale", "ret"} => held = NothingHeld
  /\ at \in {"ovfl", "undfl"} => held = (IF bc.set THEN AllHeld ELSE NothingHeld)

-----------------------------------------------------------------------------
(* Where the computations lead                                             *)

(* No path of the table of powers goes to the loop or keeps a big integer.  *)
LEMMA QuickLeads ==
  ASSUME NEW yz, NEW nd, NEW e1
  PROVE  Quick(yz, nd, e1).go \in {"done", "erange", "ovfl", "undfl", "many_digits"}
<1> DEFINE Go == {"done", "erange", "ovfl", "undfl", "many_digits"}
<1>1. /\ Ovfl.go \in Go /\ Undfl.go \in Go /\ ManyDigits.go \in Go
      /\ \A x : Done(x).go \in Go /\ Tiny(x).go \in Go
  BY DEF Ovfl, Undfl, ManyDigits, Done, Tiny, Outcome
<1>2. \A t, l, e, f : Denormal(t, l, e, f).go \in Go
  <2> SUFFICES ASSUME NEW t, NEW l, NEW e, NEW f PROVE Denormal(t, l, e, f).go \in Go
    OBVIOUS
  <2> HIDE DEF Go
  <2> QED  BY <1>1, Zenon DEF Denormal
<1>3. \A t, h, f, up : Rounded(t, h, f, up).go \in Go
  <2> HIDE DEF Go
  <2> QED  BY <1>1, Zenon DEF Rounded
<1> HIDE DEF Go
<1>4. \A t, h, l, e, f, i, n : FirstTry(t, h, l, e, f, i, n).go \in Go
  BY <1>1, <1>2, <1>3, Zenon DEF FirstTry
<1>5. \A t, u, h, l, e, f, i, n, x : SecondTry(t, u, h, l, e, f, i, n, x).go \in Go
  <2> SUFFICES ASSUME NEW t, NEW u, NEW h, NEW l, NEW e, NEW f, NEW i, NEW n, NEW x
               PROVE  SecondTry(t, u, h, l, e, f, i, n, x).go \in Go
    OBVIOUS
  <2> DEFINE up == Bit(t, h) /\ (u # 0 \/ t % 2^h # 0 \/ Bit(t, h+1))
  <2>1. /\ ManyDigits.go \in Go /\ Denormal(t, l, e, f).go \in Go
        /\ Rounded(t, h, f, up).go \in Go /\ Rounded(t, h, f, Bit(t, h)).go \in Go
    BY <1>1, <1>2, <1>3, Zenon
  <2> QED  BY <2>1, Zenon DEF SecondTry
<1>6. \A t, u, v, w, b, e, i, n, x : Refine(t, u, v, w, b, e, i, n, x).go \in Go
  <2> SUFFICES ASSUME NEW t, NEW u, NEW v, NEW w, NEW b, NEW e, NEW i, NEW n, NEW x
               PROVE  Refine(t, u, v, w, b, e, i, n, x).go \in Go
    OBVIOUS
  <2> DEFINE t02 == v * Word(b, 0)
             t11 == w * Word(b, 1) + (t02 % 2^W)
             exact == x \in 0 .. ExactTen /\ u % 2^W = 0 /\ t11 % 2^W = 0 /\ n <= DT
             tlo == (u % 2^W) + t02 \div 2^W + t11 \div 2^W
             sum == t + tlo \div 2^W
             place == Place(sum, e)
  <2>1. SecondTry(sum, tlo, place.h, place.lead, e, place.f, i, n, exact).go \in Go
    BY <1>5, Zenon
  <2> QED  BY <1>1, <2>1, Zenon DEF Refine
<1>7. \A v, w, b, e, i, n, x : Multiply(v, w, b, e, i, n, x).go \in Go
  <2> SUFFICES ASSUME NEW v, NEW w, NEW b, NEW e, NEW i, NEW n, NEW x
               PROVE  Multiply(v, w, b, e, i, n, x).go \in Go
    OBVIOUS
  <2> DEFINE t01 == v * Word(b, 1)
             t10 == w * Word(b, 2) + (t01 % 2^W)
             t00 == v * Word(b, 2) + t01 \div 2^W + t10 \div 2^W
             place == Place(t00, e)
  <2>1. FirstTry(t00, place.h, place.lead, e, place.f, i, n).go \in Go
    BY <1>4, Zenon
  <2>2. Refine(t00, t10, v, w, b, e, i, n, x).go \in Go
    BY <1>6, Zenon
  <2> QED  BY <2>1, <2>2, Zenon DEF Multiply
<1>8. Quick(yz, nd, e1).go \in Go
  BY <1>1, <1>7, Zenon DEF Quick
<1> QED  BY <1>8 DEF Go

(* The first estimate leads to the loop or out of the range of doubles.     *)
LEMMA EstimateLeads ==
  ASSUME NEW yz, NEW e1
  PROVE  Estimate(yz, e1).go \in {"loop", "ovfl", "undfl"}
<1> DEFINE Go == {"loop", "ovfl", "undfl"}
<1>1. /\ Ovfl.go \in Go /\ Undfl.go \in Go
      /\ \A x, s : Outcome("loop", x, s).go \in Go
  BY DEF Ovfl, Undfl, Outcome
<1> HIDE DEF Go
<1>2. \A x, j : LastTen(x, j).go \in Go
  BY <1>1, Zenon DEF LastTen
<1>3. \A x, s : Clear(x, s).go \in Go
  BY <1>1, Zenon DEF Clear
<1>4. \A x, e : Raise(x, e).go \in Go
  BY <1>1, <1>2, Zenon DEF Raise
<1>5. \A x, e : Lower(x, e).go \in Go
  BY <1>1, <1>3, Zenon DEF Lower
<1>6. Estimate(yz, e1).go \in Go
  BY <1>1, <1>4, <1>5, Zenon DEF Estimate
<1> QED  BY <1>6 DEF Go

-----------------------------------------------------------------------------
(* Steps                                                                   *)

(* The big integers an iteration allocates and frees.                       *)
LEMMA HeldMoves ==
  /\ held = NothingHeld /\ Alloc({"bd0"}) => held' = OnlyBd0
  /\ held = OnlyBd0 /\ Alloc({"bd", "bb", "bs", "delta"}) => held' = AllHeld
  /\ held = AllHeld /\ Bfree(Names) => held' = NothingHeld
  /\ held = AllHeld /\ Bfree(Names \ {"bd0"}) => held' = OnlyBd0
<1>1. 0 + 1 = 1 /\ 1 - 1 = 0
  OBVIOUS
<1>2. held = NothingHeld /\ Alloc({"bd0"}) => held' = OnlyBd0
  BY <1>1 DEF NothingHeld, OnlyBd0, Alloc, Names
<1>3. held = OnlyBd0 /\ Alloc({"bd", "bb", "bs", "delta"}) => held' = AllHeld
  BY <1>1 DEF OnlyBd0, AllHeld, Alloc, Names
<1>4. held = AllHeld /\ Bfree(Names) => held' = NothingHeld
  BY <1>1 DEF NothingHeld, AllHeld, Bfree, Names
<1>5. held = AllHeld /\ Bfree(Names \ {"bd0"}) => held' = OnlyBd0
  BY <1>1 DEF OnlyBd0, AllHeld, Bfree, Names
<1> QED  BY <1>2, <1>3, <1>4, <1>5

(* The three ways an iteration that has compared can end.                   *)
LEMMA IterationEnds ==
  ASSUME Owned, at = "compared"
  PROVE  /\ \A x, d : \A label \in {"bigcomp", "scale"} : Break(x, label, d) => Owned'
         /\ \A x : Cont(x) => Owned'
         /\ \A label \in {"ovfl", "undfl"} : Goto(label) => Owned'
<1>1. held = AllHeld /\ bc.set = TRUE /\ DOMAIN bc = DOMAIN NoWork
  BY DEF Owned
<1>2. \A d : LET b == [bc EXCEPT !.dsign = d] IN DOMAIN b = DOMAIN NoWork /\ b.set = TRUE
  BY <1>1 DEF NoWork
<1>3. ASSUME NEW x, NEW d, NEW label \in {"bigcomp", "scale"}, Break(x, label, d)
      PROVE  Owned'
  <2>1. held' = NothingHeld
    BY <1>1, <1>3, HeldMoves DEF Break
  <2>2. DOMAIN bc' = DOMAIN NoWork
    BY <1>2, <1>3 DEF Break
  <2>3. at' = label
    BY <1>3 DEF Break
  <2> QED  BY <2>1, <2>2, <2>3 DEF Owned, Labels
<1>4. ASSUME NEW x, Cont(x) PROVE Owned'
  <2>1. held' = OnlyBd0
    BY <1>1, <1>4, HeldMoves DEF Cont
  <2>2. DOMAIN bc' = DOMAIN NoWork /\ bc'.set = TRUE
    BY <1>2, <1>4 DEF Cont
  <2>3. at' = "loop"
    BY <1>4 DEF Cont
  <2> QED  BY <2>1, <2>2, <2>3 DEF Owned, Labels
<1>5. ASSUME NEW label \in {"ovfl", "undfl"}, Goto(label) PROVE Owned'
  BY <1>1, <1>5 DEF Goto, Owned, Labels
<1> QED  BY <1>3, <1>4, <1>5

(* Moving rv ends the iteration in one of those ways.                       *)
LEMMA MovesEnd ==
  ASSUME Owned, at = "compared"
  PROVE  /\ \A x : Moved(x) => Owned'
         /\ \A x : MovedAtTop(x) => Owned'
         /\ \A a : MoveScaled(a) => Owned'
         /\ DropDown => Owned'
<1>1. \A x : Moved(x) => Owned'
  BY IterationEnds, Zenon DEF Moved
<1>2. \A x : MovedAtTop(x) => Owned'
  BY <1>1, IterationEnds, Zenon DEF MovedAtTop
<1>3. \A a : MoveScaled(a) => Owned'
  BY <1>1, IterationEnds, Zenon DEF MoveScaled
<1>4. DropDown => Owned'
  BY IterationEnds, Zenon DEF DropDown
<1> QED  BY <1>1, <1>2, <1>3, <1>4

(* Every step keeps the account of the big integers.                        *)
LEMMA OwnedStep == Owned /\ [Next]_vars => Owned'
<1> SUFFICES ASSUME Owned, [Next]_vars PROVE Owned'
  OBVIOUS
<1>1. CASE ScanNumeral
  BY <1>1 DEF ScanNumeral, Owned, Labels, work
<1>2. CASE FastPath
  BY <1>2 DEF FastPath, Owned, Labels, work
<1>3. CASE QuickPath
  <2> DEFINE q == Quick(Yz, Len(num.digits), E1)
  <2>1. q.go \in {"done", "erange", "ovfl", "undfl", "many_digits"}
    BY QuickLeads
  <2>2. /\ at = "quick" /\ UNCHANGED <<bc, held>>
        /\ at' = IF q.go \in {"done", "erange"} THEN "ret" ELSE q.go
    BY <1>3 DEF QuickPath, Leave, work
  <2> HIDE DEF q
  <2> QED  BY <2>1, <2>2 DEF Owned, Labels
<1>4. CASE ManyDigitsPath
  <2> DEFINE o == Estimate(Yz \div Ten^Dropped(Len(num.digits)), E1 + Dropped(Len(num.digits)))
  <2>1. o.go \in {"loop", "ovfl", "undfl"}
    BY EstimateLeads
  <2> HIDE DEF o
  <2>2. at = "many_digits" /\ Begin(o)
    BY <1>4 DEF ManyDigitsPath, o
  <2>3. at' = o.go
    BY <2>1, <2>2 DEF Begin, Leave
  <2>4. CASE o.go = "loop"
    <3>1. bc' = Start(o.scale, num.digits, Kept(num.digits)) /\ Alloc({"bd0"})
      BY <2>2, <2>4 DEF Begin
    <3>2. DOMAIN bc' = DOMAIN NoWork /\ bc'.set = TRUE
      BY <3>1 DEF Start, NoWork
    <3>3. held' = OnlyBd0
      BY <2>2, <3>1, HeldMoves DEF Owned
    <3> QED  BY <2>3, <2>4, <3>2, <3>3 DEF Owned, Labels
  <2>5. CASE o.go # "loop"
    <3>1. UNCHANGED <<bc, held>>
      BY <2>2, <2>5 DEF Begin
    <3> QED  BY <2>1, <2>2, <2>3, <2>5, <3>1 DEF Owned, Labels
  <2> QED  BY <2>4, <2>5
<1>5. CASE Compare
  <2>1. at = "loop" /\ at' = "compared" /\ Alloc({"bd", "bb", "bs", "delta"}) /\ UNCHANGED bc
    BY <1>5 DEF Compare
  <2>2. held' = AllHeld
    BY <2>1, HeldMoves DEF Owned
  <2> QED  BY <2>1, <2>2 DEF Owned, Labels
<1>6. CASE Undecided
  BY <1>6, IterationEnds, Zenon DEF Undecided
<1>7. CASE LessThanHalf
  BY <1>7, IterationEnds, MovesEnd, Zenon DEF LessThanHalf
<1>8. CASE Half
  BY <1>8, IterationEnds, MovesEnd, Zenon DEF Half
<1>9. CASE MoreThanHalf
  BY <1>9, MovesEnd, Zenon DEF MoreThanHalf
<1>10. CASE Bigcomp
  <2>1. /\ at = "bigcomp" /\ at' \in {"ovfl", "undfl", "scale"}
        /\ bc' = [bc EXCEPT !.set = FALSE] /\ UNCHANGED held
    BY <1>10 DEF Bigcomp
  <2>2. DOMAIN bc' = DOMAIN NoWork /\ bc'.set = FALSE
    BY <2>1 DEF Owned, NoWork
  <2> QED  BY <2>1, <2>2 DEF Owned, Labels
<1>11. CASE Unscale
  BY <1>11 DEF Unscale, Owned, Labels, work
<1>12. CASE RangeErr
  <2>1. /\ at \in {"ovfl", "undfl"} /\ at' = "ret" /\ UNCHANGED bc
        /\ IF bc.set THEN Bfree(Names) ELSE UNCHANGED held
    BY <1>12 DEF RangeErr
  <2>2. held' = NothingHeld
    BY <2>1, HeldMoves DEF Owned
  <2> QED  BY <2>1, <2>2 DEF Owned, Labels
<1>13. CASE Returned \/ UNCHANGED vars
  BY <1>13 DEF Returned, vars, Owned
<1> QED  BY <1>1, <1>2, <1>3, <1>4, <1>5, <1>6, <1>7, <1>8, <1>9, <1>10, <1>11, <1>12, <1>13
         DEF Next

(* The account of the big integers is right in every state.                 *)
THEOREM OwnedInvariance == Spec => []Owned
<1>1. Init => Owned
  BY DEF Init, Owned, Labels, NoWork, NothingHeld
<1>2. Owned /\ [Next]_vars => Owned'
  BY OwnedStep
<1> QED  BY <1>1, <1>2, PTL DEF Spec

(* Every path out of strtod() gives back each Bigint it got, exactly once,  *)
(* and no name is overwritten while it holds one.                           *)
THEOREM EveryBigintReturned == Spec => []BigintsReturned
<1>1. Owned => BigintsReturned
  BY DEF Owned, Labels, BigintsReturned, NothingHeld, AllHeld, OnlyBd0
<1> QED  BY <1>1, OwnedInvariance, PTL

=============================================================================
