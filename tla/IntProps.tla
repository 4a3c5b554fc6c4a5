------------------------------- MODULE IntProps -------------------------------
(***************************************************************************)
(* The integer overflow macros of the benchmark tests                      *)
(* (benchtests/port/intprops.h), in the form a compiler without the        *)
(* overflow builtins gets, for operands of any pair of integer types.      *)
(*                                                                         *)
(* A C value is its type, its value and whether the expression it is the   *)
(* value of had defined behaviour (ok): the macros must not overflow a     *)
(* signed type themselves.  Operands are promoted and converted as C does. *)
(***************************************************************************)
EXTENDS Integers

CONSTANTS ShortBits, IntBits, LongBits   \* bound: the widths of three types

\* The widths of short, int and long, and what 2 ^ n is, for the proofs.
ASSUME WidthAssumption ==
  /\ {ShortBits, IntBits, LongBits} \subseteq Nat
  /\ 1 < ShortBits /\ ShortBits < IntBits /\ IntBits < LongBits
ASSUME PowerAssumption ==
  2 ^ 0 = 1 /\ \A n \in 1..LongBits : 2 ^ n = 2 * 2 ^ (n - 1)

VARIABLE ipCall     \* the latest use of a macro: its operands and its value
ipVars == <<ipCall>>

\* The rank orders the conversions: an unsigned type is above the signed type
\* of its width.
CType == [bits \in {ShortBits, IntBits, LongBits} |-> [signed \in BOOLEAN |->
            [bits |-> bits, signed |-> signed, size |-> 2 ^ bits,
             rank |-> IF signed THEN 2 * bits ELSE 2 * bits + 1,
             min |-> IF signed THEN -(2 ^ (bits - 1)) ELSE 0,
             max |-> IF signed THEN 2 ^ (bits - 1) - 1 ELSE 2 ^ bits - 1]]]
Type(bits, signed) == CType[bits][signed]
int == Type(IntBits, TRUE)
Arithmetic == {Type(b, s) : b \in {ShortBits, IntBits, LongBits}, s \in BOOLEAN}

Fits(t, n) == t.min <= n /\ n <= t.max
Wrap(t, n) == ((n - t.min) % t.size) + t.min

-----------------------------------------------------------------------------
(* C expressions.                                                          *)

Value(t, n, ok) == [t |-> t, v |-> n, ok |-> ok]
Lit(n) == Value(int, n, TRUE)
Truth(b, ok) == Value(int, IF b THEN 1 ELSE 0, ok)

Promoted(t) == IF t.bits < IntBits THEN int ELSE t
\* The usual arithmetic conversions.
Common(s, u) == Promoted(IF s.rank < u.rank THEN u ELSE s)
Cast(t, x) == Value(t, Wrap(t, x.v), x.ok)

Quotient(n, m) ==
  LET Size(k) == IF k < 0 THEN -k ELSE k
      Signed(q) == IF (n < 0) = (m < 0) THEN q ELSE -q
  IN  Signed(Size(n) \div Size(m))

\* x <op> y in their common type: overflow of a signed type is not defined.
Arith(t, n, ok) == Value(t, Wrap(t, n), ok /\ (t.signed => Fits(t, n)))
AddAs(t, x, y) == Arith(t, Wrap(t, x.v) + Wrap(t, y.v), x.ok /\ y.ok)
SubAs(t, x, y) == Arith(t, Wrap(t, x.v) - Wrap(t, y.v), x.ok /\ y.ok)
MulAs(t, x, y) == Arith(t, Wrap(t, x.v) * Wrap(t, y.v), x.ok /\ y.ok)
DivAs(t, x, y) ==
  IF Wrap(t, y.v) = 0 THEN Value(t, 0, FALSE)
  ELSE Arith(t, Quotient(Wrap(t, x.v), Wrap(t, y.v)), x.ok /\ y.ok)
LessAs(t, x, y) == Truth(Wrap(t, x.v) < Wrap(t, y.v), x.ok /\ y.ok)
EqualAs(t, x, y) == Truth(Wrap(t, x.v) = Wrap(t, y.v), x.ok /\ y.ok)

Add(x, y) == AddAs(Common(x.t, y.t), x, y)
Sub(x, y) == SubAs(Common(x.t, y.t), x, y)
Mul(x, y) == MulAs(Common(x.t, y.t), x, y)
Div(x, y) == DivAs(Common(x.t, y.t), x, y)
Rem(x, y) == Sub(x, Mul(Div(x, y), y))
Neg(x) == SubAs(Promoted(x.t), Lit(0), x)
Shl(x, n) == Arith(Promoted(x.t), x.v * 2 ^ n, x.ok)
Shr(x, n) == Value(Promoted(x.t), x.v \div 2 ^ n, x.ok)

Zero(x) == x.v = 0
Not(c) == Truth(Zero(c), c.ok)
Less(x, y) == LessAs(Common(x.t, y.t), x, y)
AtMost(x, y) == Not(Less(y, x))
Equal(x, y) == EqualAs(Common(x.t, y.t), x, y)

\* c ? x : y, c && d, c || d and !c.
Chosen(t, c, r) == Value(t, Wrap(t, r.v), r.ok /\ c.ok)
If(c, x, y) ==
  LET t == Common(x.t, y.t) IN IF Zero(c) THEN Chosen(t, c, y) ELSE Chosen(t, c, x)
And(c, d) == Truth(~Zero(c) /\ ~Zero(d), c.ok /\ (Zero(c) \/ d.ok))
Or(c, d) == Truth(~Zero(c) \/ ~Zero(d), c.ok /\ (~Zero(c) \/ d.ok))

-----------------------------------------------------------------------------
(* Types and their bounds, as the macros compute them.                     *)

_GL_INT_CONVERT(e, v) == Add(If(Lit(1), Lit(0), e), v)
_GL_INT_NEGATE_CONVERT(e, v) == Sub(If(Lit(1), Lit(0), e), v)
EXPR_SIGNED(e) == Less(_GL_INT_NEGATE_CONVERT(e, Lit(1)), Lit(0))

\* (1 << (width - 2)) - 1) * 2 + 1: 2^(width-1) itself would overflow.
_GL_SIGNED_INT_MAXIMUM(e) ==
  Add(Mul(Sub(Shl(_GL_INT_CONVERT(e, Lit(1)), Promoted(e.t).bits - 2), Lit(1)), Lit(2)), Lit(1))
Complement(x) == Sub(Neg(x), Lit(1))           \* ~x
_GL_INT_MINIMUM(e) ==
  If(EXPR_SIGNED(e), Complement(_GL_SIGNED_INT_MAXIMUM(e)), _GL_INT_CONVERT(e, Lit(0)))
_GL_INT_MAXIMUM(e) ==
  If(EXPR_SIGNED(e), _GL_SIGNED_INT_MAXIMUM(e), _GL_INT_NEGATE_CONVERT(e, Lit(1)))

-----------------------------------------------------------------------------
(* Overflow of operands that have the type of MIN and MAX already.         *)

INT_ADD_RANGE_OVERFLOW(a, b, min, max) ==
  If(Less(b, Lit(0)), Less(a, Sub(min, b)), Less(Sub(max, b), a))
INT_SUBTRACT_RANGE_OVERFLOW(a, b, min, max) ==
  If(Less(b, Lit(0)), Less(Add(max, b), a), Less(a, Add(min, b)))
INT_NEGATE_RANGE_OVERFLOW(a, min, max) ==
  If(Less(min, Lit(0)), Less(a, Neg(max)), Less(Lit(0), a))
fault_multiply(a, b, min, max) ==     \* fault: MIN / -1 is divided
  If(Less(b, Lit(0)),
     If(Less(a, Lit(0)), Less(a, Div(max, b)), Less(Div(min, b), a)),
     If(Equal(b, Lit(0)), Lit(0),
        If(Less(a, Lit(0)), Less(a, Div(min, b)), Less(Div(max, b), a))))
INT_MULTIPLY_RANGE_OVERFLOW(a, b, min, max) ==
  If(Less(b, Lit(0)),
     If(Less(a, Lit(0)), Less(a, Div(max, b)),
        If(Equal(b, Lit(-1)), Lit(0), Less(Div(min, b), a))),
     If(Equal(b, Lit(0)), Lit(0),
        If(Less(a, Lit(0)), Less(a, Div(min, b)), Less(Div(max, b), a))))
INT_LEFT_SHIFT_RANGE_OVERFLOW(a, n, min, max) ==
  If(Less(a, Lit(0)), Less(a, Shr(min, n)), Less(Shr(max, n), a))

-----------------------------------------------------------------------------
(* INT_<op>_OVERFLOW: whether the value of the expression is the           *)
(* mathematical one.                                                       *)

_GL_ADD_OVERFLOW(a, b, min, max) ==
  If(Less(min, Lit(0)), INT_ADD_RANGE_OVERFLOW(a, b, min, max),
     If(Less(a, Lit(0)), AtMost(b, Add(a, b)),
        If(Less(b, Lit(0)), AtMost(a, Add(a, b)), Less(Add(a, b), b))))
_GL_SUBTRACT_OVERFLOW(a, b, min, max) ==
  If(Less(min, Lit(0)), INT_SUBTRACT_RANGE_OVERFLOW(a, b, min, max),
     If(Less(a, Lit(0)), Lit(1),
        If(Less(b, Lit(0)), AtMost(Sub(a, b), a), Less(a, b))))
_GL_MULTIPLY_OVERFLOW(a, b, min, max) ==
  Or(And(Equal(min, Lit(0)),
         Or(And(Less(a, Lit(0)), Less(Lit(0), b)), And(Less(b, Lit(0)), Less(Lit(0), a)))),
     INT_MULTIPLY_RANGE_OVERFLOW(a, b, min, max))
MinByMinusOne(a, b, min, max) ==
  And(Equal(b, _GL_INT_NEGATE_CONVERT(min, Lit(1))), Less(a, Neg(max)))
_GL_DIVIDE_OVERFLOW(a, b, min, max) ==
  If(Less(min, Lit(0)), MinByMinusOne(a, b, min, max),
     If(Less(a, Lit(0)), AtMost(b, Sub(Add(a, b), Lit(1))),
        And(Less(b, Lit(0)), AtMost(Add(a, b), a))))
_GL_UNSIGNED_NEG_MULTIPLE(a, b, max) ==
  LET half == _GL_SIGNED_INT_MAXIMUM(b)
  IN  Equal(If(Less(b, Neg(half)),
               If(Equal(half, max), a, Rem(a, Add(_GL_INT_CONVERT(a, half), Lit(1)))),
               Rem(a, Neg(b))),
            Lit(0))
_GL_REMAINDER_OVERFLOW(a, b, min, max) ==
  If(Less(min, Lit(0)), MinByMinusOne(a, b, min, max),
     If(Less(a, Lit(0)), Not(Equal(Rem(a, b), Rem(Add(Sub(max, b), Lit(1)), b))),
        And(Less(b, Lit(0)), Not(_GL_UNSIGNED_NEG_MULTIPLE(a, b, max)))))
_GL_BINARY_OP_OVERFLOW(a, b, op) ==
  LET e == _GL_INT_CONVERT(a, b)
      min == _GL_INT_MINIMUM(e)
      max == _GL_INT_MAXIMUM(e)
  IN  CASE op = "+" -> _GL_ADD_OVERFLOW(a, b, min, max)
        [] op = "-" -> _GL_SUBTRACT_OVERFLOW(a, b, min, max)
        [] op = "*" -> _GL_MULTIPLY_OVERFLOW(a, b, min, max)
        [] op = "/" -> _GL_DIVIDE_OVERFLOW(a, b, min, max)
        [] op = "%" -> _GL_REMAINDER_OVERFLOW(a, b, min, max)
INT_NEGATE_OVERFLOW(a) == INT_NEGATE_RANGE_OVERFLOW(a, _GL_INT_MINIMUM(a), _GL_INT_MAXIMUM(a))
-----------------------------------------------------------------------------
(* INT_<op>_WRAPV: the low-order bits for a variable of type TR, and       *)
(* whether they are the value.  The bounds of TR are C constants.          *)

_GL_INT_ADD_RANGE_OVERFLOW(a, b, tmin, tmax) ==
  LET TooLow(x, y) ==       \* y is negative
        If(tmin, And(Or(EXPR_SIGNED(_GL_INT_CONVERT(x, Sub(tmin, y))), Less(y, tmin)),
                     Less(x, Sub(tmin, y))),
           AtMost(x, Sub(Lit(-1), y)))
      TooHigh == Less(tmax, Add(a, b))
  IN  If(Less(b, Lit(0)),
         Or(TooLow(a, b),
            And(If(EXPR_SIGNED(a), AtMost(Lit(0), a), Less(tmax, a)), TooHigh)),
      If(Less(a, Lit(0)),
         Or(TooLow(b, a),
            And(Or(EXPR_SIGNED(_GL_INT_CONVERT(a, b)), Less(tmax, b)), TooHigh)),
         Or(Less(tmax, b), Less(Sub(tmax, b), a))))
_GL_INT_SUBTRACT_RANGE_OVERFLOW(a, b, tmin, tmax) ==
  If(Equal(Less(a, Lit(0)), Less(b, Lit(0))),
     If(Less(a, b),
        Or(Not(tmin), Less(Sub(Lit(-1), tmin), Sub(Sub(b, a), Lit(1)))),
        Less(tmax, Sub(a, b))),
  If(Less(a, Lit(0)),
     Or(And(Not(EXPR_SIGNED(_GL_INT_CONVERT(Sub(a, tmin), b))), Less(Sub(a, tmin), Lit(0))),
        Less(Sub(a, tmin), b)),
     Or(And(Not(And(EXPR_SIGNED(_GL_INT_CONVERT(tmax, b)),
                    EXPR_SIGNED(_GL_INT_CONVERT(Add(tmax, b), a)))),
            AtMost(tmax, Sub(Lit(-1), b))),
        Less(Add(tmax, b), a))))
_GL_INT_MULTIPLY_RANGE_OVERFLOW(a, b, tmin, tmax) ==
  LET MinusOne(x, y) ==     \* x is -1 and -tmin overflows
        And(INT_NEGATE_OVERFLOW(_GL_INT_CONVERT(x, tmin)), Equal(x, Lit(-1)))
      PastMin(y) == Less(Sub(Lit(-1), tmin), Sub(y, Lit(1)))
  IN  If(Less(b, Lit(0)),
         If(Less(a, Lit(0)),
            If(EXPR_SIGNED(_GL_INT_CONVERT(tmax, b)), Less(a, Div(tmax, b)),
               AtMost(If(INT_NEGATE_OVERFLOW(b),
                         Shr(_GL_INT_CONVERT(b, tmax), Promoted(b.t).bits - 1),
                         Div(tmax, Neg(b))),
                      Sub(Lit(-1), a))),
            If(MinusOne(b, a),
               If(EXPR_SIGNED(a), Less(Lit(0), Add(a, tmin)), And(Less(Lit(0), a), PastMin(a))),
               Less(Div(tmin, b), a))),
      If(Equal(b, Lit(0)), Lit(0),
         If(Less(a, Lit(0)),
            If(MinusOne(a, b),
               If(EXPR_SIGNED(b), Less(Lit(0), Add(b, tmin)), PastMin(b)),
               Less(Div(tmin, a), b)),
            Less(Div(tmax, b), a))))

Unsigned(t) == Type(Promoted(t).bits, FALSE)
Constant(t, n) == Value(Promoted(t), n, TRUE)
Bound(t) == [min |-> IF t.signed THEN Constant(t, t.min) ELSE Lit(0),
             max |-> Constant(t, t.max)]

\* overflow(a, b, tmin, tmax) and a op b, for the op a macro is given.
overflow(op, a, b, bound) ==
  CASE op = "+" -> _GL_INT_ADD_RANGE_OVERFLOW(a, b, bound.min, bound.max)
    [] op = "-" -> _GL_INT_SUBTRACT_RANGE_OVERFLOW(a, b, bound.min, bound.max)
    [] op = "*" -> _GL_INT_MULTIPLY_RANGE_OVERFLOW(a, b, bound.min, bound.max)
Apply(op, x, y) ==
  CASE op = "+" -> Add(x, y) [] op = "-" -> Sub(x, y) [] op = "*" -> Mul(x, y)

_GL_INT_OP_WRAPV_VIA_UNSIGNED(a, b, op, ut, t) == Cast(t, Apply(op, Cast(ut, a), Cast(ut, b)))
_GL_INT_OP_CALC(a, b, tr, op) ==
  [over |-> overflow(op, a, b, Bound(tr)),
   r    |-> _GL_INT_OP_WRAPV_VIA_UNSIGNED(a, b, op, Unsigned(tr), tr)]

\* Without __typeof__ it is not known whether a short variable is signed.
_GL_INT_OP_WRAPV_SMALLISH(a, b, tr, op) ==
  LET Both(over, r) ==
        [r    |-> r,
         over |-> If(over[TRUE], If(over[FALSE], Lit(1), Less(r, Lit(0))),
                                 If(over[FALSE], AtMost(Lit(0), r), Lit(0)))]
  IN  Both([signed \in BOOLEAN |-> overflow(op, a, b, Bound(Type(tr.bits, signed)))],
           Cast(tr, _GL_INT_OP_WRAPV_VIA_UNSIGNED(a, b, op, Unsigned(tr), Type(tr.bits, TRUE))))
_GL_INT_OP_WRAPV(a, b, tr, typeof, op) ==
  IF tr.bits < IntBits /\ ~typeof
  THEN _GL_INT_OP_WRAPV_SMALLISH(a, b, tr, op)
  ELSE _GL_INT_OP_CALC(a, b, tr, op)

-----------------------------------------------------------------------------
(* The macros, each the overflow it reports and the value of the           *)
(* expression or of the variable.                                          *)

\* INT_ADD_WRAPV, INT_SUBTRACT_WRAPV and INT_MULTIPLY_WRAPV: the op of each.
WrapvOp == [ADD_WRAPV |-> "+", SUBTRACT_WRAPV |-> "-", MULTIPLY_WRAPV |-> "*"]

INT_ADD_OVERFLOW(a, b) ==
  [over |-> _GL_BINARY_OP_OVERFLOW(a, b, "+"), r |-> Add(a, b)]
INT_SUBTRACT_OVERFLOW(a, b) ==
  [over |-> _GL_BINARY_OP_OVERFLOW(a, b, "-"), r |-> Sub(a, b)]
INT_MULTIPLY_OVERFLOW(a, b) ==
  [over |-> _GL_BINARY_OP_OVERFLOW(a, b, "*"), r |-> Mul(a, b)]
INT_DIVIDE_OVERFLOW(a, b) ==
  [over |-> _GL_BINARY_OP_OVERFLOW(a, b, "/"), r |-> Div(a, b)]
INT_REMAINDER_OVERFLOW(a, b) ==
  [over |-> _GL_BINARY_OP_OVERFLOW(a, b, "%"), r |-> Rem(a, b)]
INT_LEFT_SHIFT_OVERFLOW(a, b) ==
  [over |-> INT_LEFT_SHIFT_RANGE_OVERFLOW(a, b.v, _GL_INT_MINIMUM(a), _GL_INT_MAXIMUM(a)),
   r    |-> Shl(a, b.v)]

-----------------------------------------------------------------------------
(* One use of each: the macros have no state of their own.                 *)

\* A short operand is promoted to int wherever a macro uses it.
Operands == UNION {{Value(t, n, TRUE) : n \in t.min..t.max} :
                     t \in {u \in Arithmetic : u.bits >= IntBits}}

\* The first operand is there from the start.
IpInit ==
  \E a \in Operands :
    ipCall = [macro |-> "none", a |-> a, b |-> Lit(0), tr |-> int, typeof |-> TRUE]

UseWrapv(macro, b, tr, typeof) ==
  ipCall' = [ipCall EXCEPT !.macro = macro, !.b = b, !.tr = tr, !.typeof = typeof]

\* Shift counts are within the width, divisors not zero ("do not check").
UseOverflow(macro, b) ==
  /\ macro \in {"/", "%"} => ~Zero(b)
  /\ macro = "<<" => b.v \in 0..(Promoted(ipCall.a.t).bits - 1)
  /\ ipCall' = [ipCall EXCEPT !.macro = macro, !.b = b, !.typeof = TRUE,
                  !.tr = IF macro \in {"<<", "0 -"} THEN Promoted(ipCall.a.t)
                         ELSE Common(ipCall.a.t, b.t)]

IpNext ==
  /\ ipCall.macro = "none"
  /\ \E b \in Operands :
       \/ \E macro \in DOMAIN WrapvOp, tr \in Arithmetic, typeof \in BOOLEAN :
            (tr.bits >= IntBits => typeof) /\ UseWrapv(macro, b, tr, typeof)
       \/ \E macro \in {"+", "-", "*", "/", "%", "<<", "0 -"} : UseOverflow(macro, b)

IpSpec == IpInit /\ [][IpNext]_ipVars

Result(c) ==
  CASE c.macro \in DOMAIN WrapvOp -> _GL_INT_OP_WRAPV(c.a, c.b, c.tr, c.typeof, WrapvOp[c.macro])
    [] c.macro = "+" -> INT_ADD_OVERFLOW(c.a, c.b)
    [] c.macro = "-" -> INT_SUBTRACT_OVERFLOW(c.a, c.b)
    [] c.macro = "*" -> INT_MULTIPLY_OVERFLOW(c.a, c.b)
    [] c.macro = "/" -> INT_DIVIDE_OVERFLOW(c.a, c.b)
    [] c.macro = "%" -> INT_REMAINDER_OVERFLOW(c.a, c.b)
    [] c.macro = "<<" -> INT_LEFT_SHIFT_OVERFLOW(c.a, c.b)
    [] c.macro = "0 -" -> [over |-> INT_NEGATE_OVERFLOW(c.a), r |-> Neg(c.a)]

-----------------------------------------------------------------------------
\* The mathematical value of the expression.
Exact(macro, n, m) ==
  CASE macro \in {"+", "ADD_WRAPV"} -> n + m
    [] macro \in {"-", "SUBTRACT_WRAPV"} -> n - m
    [] macro \in {"*", "MULTIPLY_WRAPV"} -> n * m
    [] macro = "/" -> Quotient(n, m)
    [] macro = "%" -> n - m * Quotient(n, m)
    [] macro = "0 -" -> -n
    [] macro = "<<" -> n * 2 ^ m

\* No macro relies "on undefined behavior due to signed arithmetic overflow"
\* (intprops.h:386-387).  A WRAPV macro stores the low-order bits and says
\* whether they are the value; the others say so of the expression.  For a
\* quotient or remainder this speaks of the mathematical one and is the value
\* of the expression if its operands keep theirs; for a remainder only the
\* absence of an overflow is exact.
Truthful(c, n, common, res) ==
  LET kept == Fits(c.tr, c.a.v) /\ Fits(c.tr, c.b.v)
      exact == c.macro # "%" /\ (common.signed \/ c.tr.bits >= common.bits)
  IN  /\ res.over.ok
      /\ Zero(res.over) => Fits(c.tr, n)
      /\ exact /\ Fits(c.tr, n) => Zero(res.over)
      /\ Zero(res.over) /\ (c.macro \in {"/", "%"} => kept) => res.r.ok /\ res.r.v = n
      /\ c.macro \in DOMAIN WrapvOp => res.r = Value(c.tr, Wrap(c.tr, n), TRUE)
OverflowExact ==
  ipCall.macro # "none" =>
    Truthful(ipCall, Exact(ipCall.macro, ipCall.a.v, ipCall.b.v),
             Common(ipCall.a.t, ipCall.b.t), Result(ipCall))
=============================================================================
