----------------------------- MODULE Factoring ------------------------------
(***************************************************************************)
(* The arithmetic that the actors of vslab/src/main.cpp perform on         *)
(* int512_t values, over the naturals.  Definitions that are loops in the  *)
(* code (the gcd of Boost, the division loop of the client) are given by   *)
(* what they compute; EuclidGcd and DivisionLoop hold the loops and show   *)
(* that they compute it.                                                   *)
(***************************************************************************)
EXTENDS Naturals

Divides(p, n) == \E k \in 0..n : n = k * p

Divisors(n) == {p \in 1..n : Divides(p, n)}

IsPrime(v) == v > 1 /\ \A k \in 2..(v - 1) : ~Divides(k, v)

(* boost::math::gcd(d, n) for n > 0.                                       *)
CommonDivisors(d, n) == {g \in Divisors(n) : Divides(g, d)}

Gcd(d, n) == LET C == CommonDivisors(d, n)
             IN  CHOOSE g \in C : \A h \in C : h <= g

(* miller_rabin_test rejects every even value first, 2 included, then      *)
(* looks values up to 227 up in a table of the odd primes.  Above that it  *)
(* is probabilistic: it accepts every odd prime, and is taken here to      *)
(* reject every composite.                                                 *)
is_probable_prime(v) == v % 2 = 1 /\ IsPrime(v)

IsPower(q, p) == \E k \in 1..q : (\A j \in 1..(k - 1) : p^j < q) /\ q = p^k

(* What the loop "while(!(tmp_n % p)) tmp_n /= p" leaves of n, for n > 0   *)
(* and p > 1: the least m with n = m * p^k.                                *)
Quotients(n, p) == {m \in 1..n : \E q \in 1..n : n = m * q /\ (q = 1 \/ IsPower(q, p))}

StripFactor(n, p) == LET Q == Quotients(n, p)
                     IN  CHOOSE m \in Q : \A l \in Q : m <= l
=============================================================================
