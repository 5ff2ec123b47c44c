------------------------------- MODULE VrfProof -------------------------------
(***************************************************************************)
(* The proof that comes with a random value: the oracle computes it        *)
(* (compute_vrf) and checks it itself (verify_vrf of the vrf crate), the   *)
(* program checks it again with the curve's system calls (verify_vrf of    *)
(* the api crate).  The curve is any group whose order is prime.  A hash   *)
(* is any function: its value is chosen for the one challenge a behaviour  *)
(* asks for, and for all others together.                                  *)
(***************************************************************************)
EXTENDS Integers

CONSTANTS
  Scalar, SAdd(_, _), SMul(_, _),    \* the scalars
  Point, PAdd(_, _), Times(_, _),    \* the points; Times(s, p) is s * p
  Zero, Neg(_),                      \*   the neutral point, and inverses
  G,                                 \* RISTRETTO_BASEPOINT_POINT
  Encoding, compress(_),             \* 32 bytes; not all are a compressed point
  Input,                             \* request ids
  HASH_TO_POINT_MAX_ATTEMPTS

\* The points are a group, the scalars act on it, and the order is prime: only the
\* scalar zero or the neutral point give the neutral point.
ASSUME GroupAssumption ==
  /\ G \in Point /\ Zero \in Point
  /\ \A a, b \in Scalar : SAdd(a, b) \in Scalar /\ SMul(a, b) \in Scalar
  /\ \A p, q \in Point : PAdd(p, q) \in Point /\ PAdd(p, q) = PAdd(q, p)
  /\ \A p, q, r \in Point : PAdd(PAdd(p, q), r) = PAdd(p, PAdd(q, r))
  /\ \A p \in Point : Neg(p) \in Point /\ PAdd(p, Zero) = p /\ PAdd(p, Neg(p)) = Zero
  /\ \A a \in Scalar, p \in Point : Times(a, p) \in Point
  /\ \A a \in Scalar, p, q \in Point : Times(a, PAdd(p, q)) = PAdd(Times(a, p), Times(a, q))
  /\ \A a, b \in Scalar, p \in Point : /\ Times(SAdd(a, b), p) = PAdd(Times(a, p), Times(b, p))
                                       /\ Times(SMul(a, b), p) = Times(a, Times(b, p))
  /\ \A a, b \in Scalar, p \in Point : Times(a, p) = Times(b, p) => a = b \/ p = Zero
  /\ \A p \in Point : \E a \in Scalar : p = Times(a, G)
  /\ G # Zero

\* Points have one encoding each.
ASSUME EncodingAssumption ==
  /\ \A p \in Point : compress(p) \in Encoding
  /\ \A p, q \in Point : compress(p) = compress(q) => p = q

ASSUME AttemptsAssumption == HASH_TO_POINT_MAX_ATTEMPTS \in Nat \ {0}

VARIABLES
  sk,         \* the secret key
  nonce,      \* HKDF of secret key and input
  candidate,  \* hashes of the input and a counter
  hashed,     \* the challenge whose hash is asked for: the input of the hash,
              \*   its value as a scalar, and the value for every other input
  proof,      \* what is submitted
  stage

vars == <<sk, nonce, candidate, hashed, proof, stage>>

-----------------------------------------------------------------------------
\* Options are sets of at most one element.
decompress(e) == {p \in Point : compress(p) = e}

\* generate_vrf_keypair.
pk == Times(sk, G)

\* The first candidate that is the encoding of a point, if any is, of n.
first_point(input, n) ==
  LET valid == {k \in 0 .. n - 1 : decompress(candidate[input][k]) # {}}
  IN  {candidate[input][k] : k \in {m \in valid : \A j \in valid : m <= j}}

\* Fault: the last attempt is not made.
hash_to_point_short(input) == first_point(input, HASH_TO_POINT_MAX_ATTEMPTS - 1)

\* The program's hash_to_point, with None where no candidate is good.
hash_to_point(input) == first_point(input, HASH_TO_POINT_MAX_ATTEMPTS)

\* The oracle's hash_to_point, which panics there.
hash_to_point_or_panic(input) ==
  UNION {decompress(e) : e \in first_point(input, HASH_TO_POINT_MAX_ATTEMPTS)}

\* Fault: the response is k + c.
response_keyless(k, c) == SAdd(k, c)

\* The response s = k + c * sk.
response(k, c) == SAdd(k, SMul(c, sk))

\* What the challenge hashes: output, commitments, public key and input.
challenge_input(p) == <<p.output, p.base, p.hash, compress(pk), p.input>>

\* hash_to_scalar of the hash of that.
challenge(p) == IF challenge_input(p) = hashed.of THEN hashed.is ELSE hashed.other

\* compute_vrf: output and commitments, for the point h of the input.
commitments(input, h) ==
  [input |-> input, output |-> compress(Times(sk, h)),
   base |-> compress(Times(nonce[input], G)), hash |-> compress(Times(nonce[input], h)), s |-> {}]

-----------------------------------------------------------------------------
\* verify_vrf of the vrf crate: on decompressed points.
oracle_accepts(p, c) ==
  \E output \in decompress(p.output), base \in decompress(p.base),
     hash \in decompress(p.hash), h \in hash_to_point_or_panic(p.input) :
       /\ Times(p.s, G) = PAdd(base, Times(c, pk))
       /\ Times(p.s, h) = PAdd(hash, Times(c, output))

\* multiply_ristretto and add_ristretto: None unless the arguments encode points.
multiply_ristretto(s, e) == {compress(Times(s, p)) : p \in decompress(e)}
add_ristretto(e, f) ==
  {compress(PAdd(p[1], p[2])) : p \in decompress(e) \X decompress(f)}

\* Fault: only the first equation is checked.
program_accepts_base(p, c) ==
  \E h \in hash_to_point(p.input), rhs_base_r \in multiply_ristretto(c, compress(pk)) :
    \E rhs_base \in add_ristretto(p.base, rhs_base_r) :
      multiply_ristretto(p.s, compress(G)) = {rhs_base}

\* verify_vrf of the api crate: on encodings, and false at the first None.
program_accepts(p, c) ==
  \E h \in hash_to_point(p.input),
     rhs_base_r \in multiply_ristretto(c, compress(pk)),
     rhs_hash_r \in multiply_ristretto(c, p.output) :
    \E rhs_base \in add_ristretto(p.base, rhs_base_r),
       rhs_hash \in add_ristretto(p.hash, rhs_hash_r) :
         /\ multiply_ristretto(p.s, compress(G)) = {rhs_base}
         /\ multiply_ristretto(p.s, h) = {rhs_hash}

-----------------------------------------------------------------------------
Proofs == [input : Input, output : Encoding, base : Encoding, hash : Encoding, s : Scalar]
Challenges == Encoding \X Encoding \X Encoding \X Encoding \X Input
NoProof == [input |-> "none"]

Init ==
  /\ sk \in Scalar /\ nonce \in [Input -> Scalar]
  /\ candidate \in [Input -> [0 .. HASH_TO_POINT_MAX_ATTEMPTS - 1 -> Encoding]]
  /\ hashed \in [of : {<<>>}, is : Scalar, other : Scalar]
  /\ proof = NoProof /\ stage = "start"

\* compute_vrf, by the oracle.
Compute(input) ==
  /\ stage = "start"
  /\ \E h \in hash_to_point_or_panic(input) :
       LET p == commitments(input, h)
       IN  /\ hashed' = [hashed EXCEPT !.of = challenge_input(p)]
           /\ proof' = [p EXCEPT !.s = response(nonce[input], hashed.is)]
  /\ stage' = "computed"
  /\ UNCHANGED <<sk, nonce, candidate>>

\* No candidate is a point: the oracle panics and submits nothing.
Panic(input) ==
  /\ stage = "start" /\ hash_to_point_or_panic(input) = {}
  /\ stage' = "panicked"
  /\ UNCHANGED <<sk, nonce, candidate, hashed, proof>>

\* Anything may stand in the instruction.
Submit(p) ==
  /\ stage = "start"
  /\ proof' = p /\ hashed' = [hashed EXCEPT !.of = challenge_input(p)]
  /\ stage' = "submitted"
  /\ UNCHANGED <<sk, nonce, candidate>>

Next ==
  \/ \E input \in Input : Compute(input) \/ Panic(input)
  \/ \E p \in Proofs : Submit(p)

Spec == Init /\ [][Next]_vars

-----------------------------------------------------------------------------
\* The type of every variable.
TypeOK ==
  /\ sk \in Scalar /\ nonce \in [Input -> Scalar]
  /\ candidate \in [Input -> [0 .. HASH_TO_POINT_MAX_ATTEMPTS - 1 -> Encoding]]
  /\ hashed \in [of : Challenges \union {<<>>}, is : Scalar, other : Scalar]
  /\ stage \in {"start", "computed", "panicked", "submitted"}
  /\ IF stage \in {"computed", "submitted"} THEN proof \in Proofs ELSE proof = NoProof

\* What the oracle computes passes its own assertion (prepare_vrf) and the program's
\* check, whatever the key, the nonce and the hashes are.
Complete ==
  stage = "computed" => oracle_accepts(proof, challenge(proof)) /\ program_accepts(proof, challenge(proof))

\* The two verifiers, one on points and one on encodings with early returns, agree
\* on everything that can be submitted, bytes that encode no point included.
VerifiersAgree ==
  stage = "submitted" =>
    (oracle_accepts(proof, challenge(proof)) <=> program_accepts(proof, challenge(proof)))

\* The output is bound to key and input: a proof of an output other than sk * h
\* passes for one value of the challenge at most, whatever the response, and the
\* hash fixes that value only after output and commitments. So an oracle has one
\* value to give.
OutputBound ==
  stage = "submitted" /\ program_accepts(proof, challenge(proof)) =>
    \/ \E h \in hash_to_point_or_panic(proof.input) : proof.output = compress(Times(sk, h))
    \/ \A c \in Scalar \ {challenge(proof)}, s \in Scalar :
         ~program_accepts([proof EXCEPT !.s = s], c)
=============================================================================
