-------------------------------- MODULE Poly ---------------------------------
(***************************************************************************)
(* Polynomial evaluation, src/stringsperf/performance: poly evaluates five *)
(* interleaved sums, poly_naive one term after the other, and the          *)
(* correctness test of main compares them.  Numbers are residues modulo a  *)
(* prime P, in which x = 1 + 1/degree exists: two results that differ here *)
(* differ as rational numbers.  Rounding is not modelled.                  *)
(***************************************************************************)
EXTENDS Integers, Sequences

CONSTANTS
    P,         \* the prime, greater than every degree
    MaxDegree  \* bound: the degree given on the command line

VARIABLES a, x, degree

poly_vars == <<a, x, degree>>

Mod(n) == n % P

\* The five sums start at the five highest coefficients and the loop takes five
\* more in each round while five are left: it leaves i, and Sum(j) is result j+1.
i == degree % 5
Times(u, v) == Mod(u * v)
Power(n) == LET p[k \in 0..n] == IF k = 0 THEN 1 ELSE Times(x, p[k - 1]) IN p[n]
Sum(j) ==
    LET terms == (degree - i) \div 5
        s[k \in 1..terms] ==
          IF k = 1 THEN a[degree - j]
          ELSE Mod(Times(Power(5), s[k - 1]) + a[degree - j - 5 * (k - 1)])
    IN s[terms]

\* The switch: a result that still has a coefficient left takes it in; then each
\* is multiplied by the power of its lowest term.
More(r, n) == Mod(Times(Power(5), r) + a[n])
results ==
    LET r == [j \in 0..4 |-> Sum(j)] IN
    CASE i = 0 -> <<Times(r[0], Power(5)), Times(r[1], Power(4)), Times(r[2], Power(3)),
                    Times(r[3], Power(2)), Times(r[4], x)>>
      [] i = 1 -> <<Times(More(r[0], 1), x), Times(r[1], Power(5)), Times(r[2], Power(4)),
                    Times(r[3], Power(3)), Times(r[4], Power(2))>>
      [] i = 2 -> <<Times(More(r[0], 2), Power(2)), Times(More(r[1], 1), x),
                    Times(r[2], Power(5)), Times(r[3], Power(4)), Times(r[4], Power(3))>>
      [] i = 3 -> <<Times(More(r[0], 3), Power(3)), Times(More(r[1], 2), Power(2)),
                    Times(More(r[2], 1), x),
                    Times(r[3], Power(4)), Times(r[4], Power(5))>>
      [] i = 4 -> <<Times(More(r[0], 4), Power(4)), Times(More(r[1], 3), Power(3)),
                    Times(More(r[2], 2), Power(2)),
                    Times(Times(r[3], More(r[3], 1)), x), Times(r[4], Power(5))>>

poly ==
    Mod(a[0] + results[1] + results[2] + results[3] + results[4] + results[5])

poly_naive ==
    LET result[n \in 0..degree] ==
          IF n = 0 THEN a[0] ELSE Mod(result[n - 1] + Times(a[n], Power(n)))
    IN result[degree]

\* What the correctness test wants to be zero.
res == Mod(poly - poly_naive)

------------------------------------------------------------------------------
PolyInit == a = <<>> /\ x = 0 /\ degree = 0

\* main refuses a degree below 15, fixes x and draws coefficients; here at most
\* two of them are not zero.
poly_main ==
    /\ a = <<>>
    /\ degree' \in 15..MaxDegree
    /\ x' = CHOOSE r \in 0..(P - 1) : Mod(r * degree') = Mod(degree' + 1)
    /\ \E n, m \in 0..degree', u, v \in {1, 9} :
         a' = [k \in 0..degree' |-> IF k = n THEN u ELSE IF k = m THEN v ELSE 0]

PolySpec == PolyInit /\ [][poly_main]_poly_vars

------------------------------------------------------------------------------
\* "Return value: the value of the evaluated polynomial" (poly.c:29); the
\* correctness test of main.c expects poly and poly_naive to agree, whatever the
\* remainder of the degree modulo the five sums.
PolyAgrees == a # <<>> => res = 0
==============================================================================
