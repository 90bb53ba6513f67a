-------------------------------- MODULE Numbers --------------------------------
(***************************************************************************)
(* libc/asm/math.asm on words of WordWidth bits (32 in the code); every    *)
(* addition and multiplication wraps.                                      *)
(***************************************************************************)
EXTENDS Integers, FiniteSets, Bitwise

CONSTANT WordWidth

VARIABLE operands \* the arguments of the calls looked at

M == 2^WordWidth
Words == 0 .. M - 1
Signed(x) == IF 2 * x >= M THEN x - M ELSE x
First(S) == CHOOSE x \in S : \A y \in S : x <= y

abs_i32(x) == IF Signed(x) >= 0 THEN x ELSE (M - x) % M
clamp_i32(v, lo, hi) == IF Signed(v) < Signed(lo) THEN lo
                        ELSE IF Signed(v) > Signed(hi) THEN hi ELSE v
clamp_u32(v, lo, hi) == IF v < lo THEN lo ELSE IF v > hi THEN hi ELSE v

align_down(v, a) == v & (M - 1 - ((a - 1) % M))
align_up(v, a) == align_down((v + (a - 1)) % M, a)
round_up_u32(v, m) == IF m = 0 THEN v ELSE align_up(v, m)

ceil_div_u32(a, b) == IF b = 0 THEN a ELSE (((a - 1) % M) \div b + 1) % M

pow_u32(base, exp) ==
  LET p[k \in 0 .. exp] == IF k = 0 THEN 1 ELSE (p[k - 1] * base) % M IN p[exp]

(* The first root whose square, as far as it fits, exceeds n; none: the     *)
(* loop does not end.                                                       *)
Beyond(n) == {x \in Words : (x * x) % M > n}
Never == -1
sqrt_u32(n) == IF Beyond(n) = {} THEN Never ELSE First(Beyond(n)) - 1

gcd_u32(a, b) ==
  LET g[p \in Words \X Words] == IF p[2] = 0 THEN p[1] ELSE g[<<p[2], p[1] % p[2]>>]
  IN g[<<a, b>>]

(* With one operand zero, the first one. *)
lcm_u32(a, b) ==
  IF a = 0 \/ b = 0 THEN a ELSE ((a \div gcd_u32(a, b)) * b) % M

(* Odd divisors, until the square of one exceeds n or one divides n. *)
is_prime_u32(n) ==
  LET Tried == {c \in Words : c % 2 = 1 /\ c >= 3 /\ ((c * c) % M > n \/ n % c = 0)}
  IN IF n < 3 \/ n % 2 = 0 THEN n = 2
     ELSE LET c == First(Tried) IN (c * c) % M > n

log2_floor_u32(n) ==
  LET l[x \in Words] == IF x <= 1 THEN 0 ELSE l[x \div 2] + 1 IN l[n]
log2_ceil_u32(n) == IF n = 0 THEN 0 ELSE log2_floor_u32(n - 1) + 1

popcount_u32(n) ==
  LET c[x \in Words] == IF x = 0 THEN 0 ELSE c[x \div 2] + (x % 2) IN c[n]
parity_u32(n) == popcount_u32(n) % 2

factorial_u32(n) ==
  LET f[k \in 0 .. n] == IF k <= 1 THEN 1 ELSE (f[k - 1] * k) % M IN f[n]

(* a, b := b, a + b, n - 1 times *)
fibonacci_u32(n) ==
  LET f[k \in 1 .. n] == IF k = 1 THEN <<0, 1>>
                         ELSE LET p == f[k - 1] IN <<p[2], (p[1] + p[2]) % M>>
  IN IF n = 0 THEN 0 ELSE f[n][2]

NumInit == operands = <<0, 0>>
Look(a, b) == operands' = <<a, b>>
NumNext == operands = <<0, 0>> /\ \E a, b \in Words : Look(a, b)
NumSpec == NumInit /\ [][NumNext]_operands

--------------------------------------------------------------------------------
(* Rounding and division are exact up to the edges of the word: alignment   *)
(* to a power of two while the rounded value still fits, division rounded   *)
(* up for every dividend but zero (paging_init never divides zero), the     *)
(* absolute value of every number that has one.                             *)
RoundingExact ==
  LET a == operands[1]
      b == operands[2]
  IN /\ Signed(a) > -(M \div 2) => Signed(abs_i32(a)) \in {Signed(a), -Signed(a)} \cap Nat
     /\ Signed(a) <= Signed(b) => \A v \in {0, a, b, M - 1} :
          Signed(clamp_i32(v, a, b)) \in Signed(a) .. Signed(b)
     /\ a <= b => \A v \in {0, a, b, M - 1} : clamp_u32(v, a, b) \in a .. b
     /\ (popcount_u32(b) = 1 /\ a + b - 1 < M) =>
          /\ align_up(a, b) % b = 0 /\ align_up(a, b) - a \in 0 .. b - 1
          /\ align_down(a, b) % b = 0 /\ a - align_down(a, b) \in 0 .. b - 1
          /\ round_up_u32(a, b) = align_up(a, b)
     /\ (a > 0 /\ b > 0) => ceil_div_u32(a, b) * b - a \in 0 .. b - 1

Half == 2^(WordWidth \div 2) - 1
Divides(d, n) == n % d = 0

(* Divisors, roots, primes and logarithms are what they are called, for     *)
(* operands below the square of the largest half word: from there on the    *)
(* squares in sqrt_u32 and is_prime_u32 wrap.                               *)
DivisorsExact ==
  LET a == operands[1]
      b == operands[2]
      g == gcd_u32(a, b)
  IN /\ (a > 0 /\ b > 0) => /\ Divides(g, a) /\ Divides(g, b)
                            /\ \A d \in g + 1 .. a : ~(Divides(d, a) /\ Divides(d, b))
                            /\ a * b < M => lcm_u32(a, b) * g = a * b
     /\ b = 0 =>
          /\ a < Half^2 => /\ sqrt_u32(a)^2 <= a /\ a < (sqrt_u32(a) + 1)^2
                           /\ is_prime_u32(a) <=> a > 1 /\ \A d \in 2 .. a - 1 : ~Divides(d, a)
          /\ a > 0 => 2^log2_floor_u32(a) <= a /\ a < 2^(log2_floor_u32(a) + 1)
          /\ a > 1 => a <= 2^log2_ceil_u32(a) /\ 2^(log2_ceil_u32(a) - 1) < a
          /\ parity_u32(a) = Cardinality({i \in 0 .. WordWidth - 1 : (a \div 2^i) % 2 = 1}) % 2
          /\ a \in 2 .. 20 => fibonacci_u32(a) = (fibonacci_u32(a - 1) + fibonacci_u32(a - 2)) % M
          /\ a \in 1 .. 20 => factorial_u32(a) = (a * factorial_u32(a - 1)) % M
     /\ b \in 1 .. 5 => pow_u32(a, b) = (a^b) % M

(* The routines of math.asm compute what they are named for.                *)
NumbersExact == RoundingExact /\ DivisorsExact
================================================================================
