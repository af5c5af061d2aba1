------------------------------- MODULE MCText ------------------------------
(* snprintf() and strtol() with an int of six bits, a long of five, doubles  *)
(* of nine and limbs of two digits.                                          *)
EXTENDS Text

MCLeastFixed == -2
Call(fmt, args, n, bases) == [fmt |-> fmt, args |-> args, n |-> n, bases |-> bases]
Plain(t) == Conversion(0, {}, Absent, Absent, "bare", t)

(* A conversion of one integer in every combination.                         *)
IntegerCalls ==
  {Call(<<Conversion(0, fl, w.spec, p.spec, len, t)>>, w.args \o p.args \o <<v>>, 31,
        IF t = "d" /\ fl = {} THEN {10} ELSE {}) :
     fl \in {f \in SUBSET {"-", "0", "+", " ", "#"} : Cardinality(f) <= 2},
     w \in {[spec |-> Absent, args |-> <<>>], [spec |-> Number(5), args |-> <<>>],
            [spec |-> Star, args |-> <<-4>>]},
     p \in {[spec |-> Absent, args |-> <<>>], [spec |-> Number(0), args |-> <<>>],
            [spec |-> Number(2), args |-> <<>>], [spec |-> Star, args |-> <<-1>>]},
     len \in {"bare", "hh", "j"}, t \in {"d", "u", "o", "x"}, v \in {-32, -9, 0, 8, 31}}

(* Up to three items with their arguments in order, in buffers of all sizes. *)
Pieces ==
  {[item |-> Text(<<"a", "b">>), args |-> <<>>],
   [item |-> Plain("d"), args |-> <<-12>>],
   [item |-> Conversion(0, {}, Star, Star, "bare", "s"), args |-> <<3, 2, <<"x", "y", "z">>>>],
   [item |-> Conversion(0, {"-"}, Number(2), Absent, "bare", "c"), args |-> <<20>>],
   [item |-> Plain("s"), args |-> <<Unset>>],
   [item |-> Conversion(0, {}, Number(20), Absent, "bare", "u"), args |-> <<7>>],
   [item |-> Conversion(0, {}, Absent, Absent, "hh", "n"), args |-> <<Unset>>],
   [item |-> Plain("n"), args |-> <<Unset>>],
   [item |-> Plain("m"), args |-> <<>>],
   [item |-> Plain("?"), args |-> <<>>]}
OrderedCalls ==
  {Call([k \in DOMAIN q |-> q[k].item], FlattenSeq([k \in DOMAIN q |-> q[k].args]), n, {}) :
     q \in UNION {[1 .. k -> Pieces] : k \in 0 .. 3}, n \in {0, 1, 4, 31, 32}}

(* A width or a precision that is no int of six bits, after a text or not.   *)
OversizedCalls ==
  {Call(start \o <<Conversion(0, fl, w, p, "bare", t)>>, <<8>>, n, {}) :
     start \in {<<>>, <<Text(<<"a", "b">>)>>}, fl \in {{}, {"-"}},
     w \in {Absent, Number(40), Number(70)}, p \in {Absent, Number(40), Number(70)},
     t \in {"d", "?"}, n \in {0, 1, 4, 31}}

(* Up to three items that name their arguments, an int, a string, a char and *)
(* a long one.                                                               *)
Places ==
  {Conversion(1, {"+"}, Absent, Absent, "bare", "d"),
   Conversion(2, {}, Absent, Absent, "bare", "s"),
   Conversion(2, {}, StarNth(1), StarNth(1), "bare", "s"),
   Conversion(3, {}, StarNth(1), Absent, "hh", "d"),
   Conversion(4, {"0"}, Number(6), Absent, "j", "d"),
   Conversion(1, {}, Absent, Absent, "bare", "m"),
   Plain("m"), Text(<<"%">>)}
PlacedCalls ==
  {Call(q, <<w, <<"x", "y", "z">>, 23, -100>>, 31, {}) :
     q \in UNION {[1 .. k -> Places] : k \in 1 .. 3}, w \in {2, -5}}

(* Strings read back.                                                        *)
Strings == UNION {[1 .. k -> {" ", "-", "+", "0", "x", "1", "5", "6", "f"}] : k \in 0 .. 4}
ParsedCalls ==
  {Call(<<Plain("s")>>, <<s>>, 31, {0, 10, 16}) : s \in Strings}
    \cup {Call(<<Plain("s")>>, <<s>>, 31, {-1, 1, 2, 36, 37}) :
            s \in {<<"1", "1", "1", "1">>, <<"-", "1", "0", "0", "0", "1">>, <<"1">>, <<"f">>}}

(* Doubles in every style.                                                   *)
Finite == {0, 1, 3, 100, 255} \cup
          {Pattern(field, m - 256) : field \in 1 .. 24,
             m \in {256, 257, 300, 320, 384, 416, 450, 464, 500, 511}}
Fp(t, fl, w, p, x, neg, junk) ==
  Call(<<Conversion(0, fl, w, p, "bare", t)>>, <<[x |-> x, neg |-> neg, junk |-> junk]>>, 31, {})
FpCalls ==
  {Fp(t, {}, Absent, p, x, FALSE, 7) :
     t \in {"e", "f", "g"}, p \in {Absent} \cup {Number(k) : k \in 0 .. 3}, x \in Finite}
  \cup {Fp(t, fl, Number(9), Number(1), x, neg, junk) :
          t \in {"e", "f", "g"}, fl \in {{}, {"-"}, {"0", "+"}, {"#", " "}},
          x \in {0, 1, 300, Pattern(13, 128), Pattern(24, 255), Inf},
          neg \in BOOLEAN, junk \in {0, 7}}

MCCalls == <<IntegerCalls, OrderedCalls, OversizedCalls, PlacedCalls, ParsedCalls, FpCalls>>

(* A number just above the middle of 0.00088 and 0.00089.                    *)
PastMiddle == <<{Fp("e", {}, Absent, Number(1), 464, FALSE, 7)}>>
=============================================================================
