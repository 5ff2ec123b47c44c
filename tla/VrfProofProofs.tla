---------------------------- MODULE VrfProofProofs ----------------------------
(***************************************************************************)
(* What the proofs of VrfProof are worth, for every group of prime order   *)
(* and every choice of the hashes: the equations of the verifiers.         *)
(***************************************************************************)
EXTENDS VrfProof, TLAPS

-----------------------------------------------------------------------------
\* Encodings.

\* An encoding stands for one point (CompressedRistretto::decompress).
LEMMA DecompressOne ==
  ASSUME NEW e, NEW p \in decompress(e)
  PROVE  p \in Point /\ compress(p) = e /\ decompress(e) = {p}
<1>1. p \in Point /\ compress(p) = e
  BY DEF decompress
<1>2. \A q \in decompress(e) : q = p
  BY <1>1, EncodingAssumption DEF decompress
<1> QED BY <1>1, <1>2

\* Decompressing undoes compressing.
LEMMA DecompressCompress ==
  ASSUME NEW p \in Point
  PROVE  decompress(compress(p)) = {p}
<1>1. p \in decompress(compress(p))
  BY DEF decompress
<1> QED BY <1>1, DecompressOne

\* The hash points of the two crates are the same point, encoded and not.
LEMMA HashPoints ==
  ASSUME NEW input
  PROVE  /\ \A e \in hash_to_point(input) :
              \E h \in hash_to_point_or_panic(input) : e = compress(h) /\ h \in Point
         /\ \A h \in hash_to_point_or_panic(input) :
              h \in Point /\ compress(h) \in hash_to_point(input)
<1>1. ASSUME NEW e \in hash_to_point(input)
      PROVE  \E h \in hash_to_point_or_panic(input) : e = compress(h) /\ h \in Point
  <2>1. decompress(e) # {}
    BY <1>1, Zenon DEF hash_to_point, first_point
  <2>2. PICK h : h \in decompress(e)
    BY <2>1
  <2>3. h \in hash_to_point_or_panic(input)
    BY <1>1, <2>2 DEF hash_to_point, hash_to_point_or_panic
  <2> QED BY <2>2, <2>3, DecompressOne
<1>2. ASSUME NEW h \in hash_to_point_or_panic(input)
      PROVE  h \in Point /\ compress(h) \in hash_to_point(input)
  <2>1. PICK e \in hash_to_point(input) : h \in decompress(e)
    BY <1>2 DEF hash_to_point, hash_to_point_or_panic
  <2> QED BY <2>1, DecompressOne
<1> QED BY <1>1, <1>2

-----------------------------------------------------------------------------
\* The group.

\* Two lines that meet for two scalars are the same: A + a X = B + a Y for two
\* different a only if X = Y.
LEMMA LinesMeetOnce ==
  ASSUME NEW A \in Point, NEW B \in Point, NEW X \in Point, NEW Y \in Point,
         NEW a \in Scalar, NEW b \in Scalar, a # b,
         PAdd(A, Times(a, X)) = PAdd(B, Times(a, Y)),
         PAdd(A, Times(b, X)) = PAdd(B, Times(b, Y))
  PROVE  X = Y
<1> DEFINE D == PAdd(X, Neg(Y))
<1>1. /\ Neg(X) \in Point /\ Neg(Y) \in Point /\ D \in Point /\ Neg(A) \in Point
      /\ \A s \in Scalar, p \in Point : Times(s, p) \in Point
  BY GroupAssumption, Zenon
<1>a. \A p, q, r \in Point : PAdd(PAdd(p, q), r) = PAdd(p, PAdd(q, r))
  BY GroupAssumption
<1>2. \A p, q, r \in Point : PAdd(p, r) = PAdd(q, r) => p = q
  <2> SUFFICES ASSUME NEW p \in Point, NEW q \in Point, NEW r \in Point,
                      PAdd(p, r) = PAdd(q, r)
               PROVE  p = q
    OBVIOUS
  <2>1. Neg(r) \in Point /\ PAdd(r, Neg(r)) = Zero
    BY GroupAssumption, Zenon
  <2>2. PAdd(PAdd(p, r), Neg(r)) = p
    BY <2>1, GroupAssumption
  <2>3. PAdd(PAdd(q, r), Neg(r)) = q
    BY <2>1, GroupAssumption
  <2> QED BY <2>2, <2>3
<1>3. X = PAdd(D, Y)
  <2>1. PAdd(Neg(Y), Y) = Zero
    BY <1>1, GroupAssumption
  <2>2. PAdd(D, Y) = PAdd(X, PAdd(Neg(Y), Y))
    BY <1>1, GroupAssumption
  <2> QED BY <2>1, <2>2, GroupAssumption
<1>4. ASSUME NEW s \in Scalar, PAdd(A, Times(s, X)) = PAdd(B, Times(s, Y))
      PROVE  PAdd(A, Times(s, D)) = B
  <2>1. Times(s, X) = PAdd(Times(s, D), Times(s, Y))
    BY <1>1, <1>3, GroupAssumption
  <2>2. PAdd(A, Times(s, X)) = PAdd(PAdd(A, Times(s, D)), Times(s, Y))
    <3>1. Times(s, D) \in Point /\ Times(s, Y) \in Point
      BY <1>1
    <3>2. PAdd(PAdd(A, Times(s, D)), Times(s, Y)) = PAdd(A, PAdd(Times(s, D), Times(s, Y)))
      BY <1>a, <3>1, ZenonT(60)
    <3> QED BY <2>1, <3>2
  <2>3. PAdd(A, Times(s, D)) \in Point /\ Times(s, Y) \in Point
    BY <1>1, GroupAssumption, Zenon
  <2>4. PAdd(PAdd(A, Times(s, D)), Times(s, Y)) = PAdd(B, Times(s, Y))
    BY <1>4, <2>2
  <2> HIDE DEF D
  <2> QED BY <1>2, <2>3, <2>4, ZenonT(60)
<1>5. PAdd(A, Times(a, D)) = PAdd(A, Times(b, D))
  BY <1>4
<1>6. PAdd(Times(a, D), A) = PAdd(Times(b, D), A)
  BY <1>1, <1>5, GroupAssumption
<1>7. Times(a, D) = Times(b, D)
  BY <1>1, <1>2, <1>6
<1>8. D = Zero
  BY <1>1, <1>7, GroupAssumption
<1> QED
  <2>1. PAdd(Zero, Y) = PAdd(Y, Zero) /\ PAdd(Y, Zero) = Y
    BY GroupAssumption, Zenon
  <2> QED BY <1>3, <1>8, <2>1

-----------------------------------------------------------------------------
\* The two verifiers.

\* multiply_ristretto on the encoding of a point.
LEMMA MultiplyPoint ==
  ASSUME NEW s, NEW q \in Point
  PROVE  multiply_ristretto(s, compress(q)) = {compress(Times(s, q))}
BY DecompressCompress DEF multiply_ristretto

\* add_ristretto when the second argument encodes a point.
LEMMA AddPoint ==
  ASSUME NEW e, NEW q \in Point
  PROVE  add_ristretto(e, compress(q)) = {compress(PAdd(b, q)) : b \in decompress(e)}
<1>1. decompress(compress(q)) = {q}
  BY DecompressCompress
<1>2. add_ristretto(e, compress(q)) = {compress(PAdd(p[1], p[2])) : p \in decompress(e) \X {q}}
  BY <1>1 DEF add_ristretto
<1>3. ASSUME NEW f \in add_ristretto(e, compress(q))
      PROVE  f \in {compress(PAdd(b, q)) : b \in decompress(e)}
  <2>1. PICK p \in decompress(e) \X {q} : f = compress(PAdd(p[1], p[2]))
    BY <1>2, <1>3
  <2>2. p[1] \in decompress(e) /\ p[2] = q
    BY <2>1
  <2> QED BY <2>1, <2>2
<1>4. ASSUME NEW b \in decompress(e)
      PROVE  compress(PAdd(b, q)) \in add_ristretto(e, compress(q))
  <2>1. <<b, q>> \in decompress(e) \X {q} /\ <<b, q>>[1] = b /\ <<b, q>>[2] = q
    OBVIOUS
  <2> QED BY <1>2, <2>1
<1> QED BY <1>3, <1>4

\* Both verifiers accept the same proofs for the same challenge: the program's, on
\* encodings and with its early returns, and the oracle's, on points.
LEMMA SameVerdict ==
  ASSUME sk \in Scalar, NEW p, p.s \in Scalar, NEW c \in Scalar
  PROVE  oracle_accepts(p, c) <=> program_accepts(p, c)
<1>1. pk \in Point /\ G \in Point /\ Times(c, pk) \in Point
  BY GroupAssumption DEF pk
<1>2. multiply_ristretto(c, compress(pk)) = {compress(Times(c, pk))}
  BY <1>1, MultiplyPoint
<1>3. multiply_ristretto(p.s, compress(G)) = {compress(Times(p.s, G))}
  BY <1>1, MultiplyPoint
<1>4. add_ristretto(p.base, compress(Times(c, pk)))
        = {compress(PAdd(b, Times(c, pk))) : b \in decompress(p.base)}
  BY <1>1, AddPoint
<1>5. ASSUME NEW o \in decompress(p.output)
      PROVE  /\ o \in Point /\ Times(c, o) \in Point
             /\ multiply_ristretto(c, p.output) = {compress(Times(c, o))}
             /\ add_ristretto(p.hash, compress(Times(c, o)))
                  = {compress(PAdd(b, Times(c, o))) : b \in decompress(p.hash)}
  <2>1. o \in Point /\ compress(o) = p.output
    BY <1>5, DecompressOne
  <2>2. Times(c, o) \in Point
    BY <2>1, GroupAssumption
  <2> QED BY <2>1, <2>2, MultiplyPoint, AddPoint
<1>6. ASSUME NEW h \in Point
      PROVE  /\ multiply_ristretto(p.s, compress(h)) = {compress(Times(p.s, h))}
             /\ Times(p.s, h) \in Point
  BY MultiplyPoint, GroupAssumption, ZenonT(60)
<1>7. \A b, q \in Point : PAdd(b, q) \in Point
  BY GroupAssumption
<1>8. \A b \in decompress(p.base) : b \in Point
  BY DecompressOne
<1>9. \A b \in decompress(p.hash) : b \in Point
  BY DecompressOne
<1>10. ASSUME oracle_accepts(p, c) PROVE program_accepts(p, c)
  <2>1. PICK o \in decompress(p.output), base \in decompress(p.base),
             hash \in decompress(p.hash), h \in hash_to_point_or_panic(p.input) :
               /\ Times(p.s, G) = PAdd(base, Times(c, pk))
               /\ Times(p.s, h) = PAdd(hash, Times(c, o))
    BY <1>10 DEF oracle_accepts
  <2>2. h \in Point /\ compress(h) \in hash_to_point(p.input)
    BY HashPoints
  <2> DEFINE rb == compress(PAdd(base, Times(c, pk)))
             rh == compress(PAdd(hash, Times(c, o)))
  <2>3. rb \in add_ristretto(p.base, compress(Times(c, pk)))
    BY <1>4
  <2>4. rh \in add_ristretto(p.hash, compress(Times(c, o)))
    BY <1>5
  <2>5. multiply_ristretto(p.s, compress(G)) = {rb}
    BY <1>3, <2>1
  <2>6. multiply_ristretto(p.s, compress(h)) = {rh}
    BY <1>6, <2>1, <2>2
  <2>7. compress(Times(c, o)) \in multiply_ristretto(c, p.output)
    BY <1>5
  <2>8. compress(Times(c, pk)) \in multiply_ristretto(c, compress(pk))
    BY <1>2
  <2> HIDE DEF rb, rh
  <2> QED BY <2>2, <2>3, <2>4, <2>5, <2>6, <2>7, <2>8, Zenon DEF program_accepts
<1>11. ASSUME program_accepts(p, c) PROVE oracle_accepts(p, c)
  <2>1. PICK e \in hash_to_point(p.input),
             rb1 \in multiply_ristretto(c, compress(pk)),
             rh1 \in multiply_ristretto(c, p.output) :
               \E rb \in add_ristretto(p.base, rb1), rh \in add_ristretto(p.hash, rh1) :
                 /\ multiply_ristretto(p.s, compress(G)) = {rb}
                 /\ multiply_ristretto(p.s, e) = {rh}
    BY <1>11 DEF program_accepts
  <2>2. PICK rb \in add_ristretto(p.base, rb1), rh \in add_ristretto(p.hash, rh1) :
          /\ multiply_ristretto(p.s, compress(G)) = {rb}
          /\ multiply_ristretto(p.s, e) = {rh}
    BY <2>1
  <2>3. PICK h \in hash_to_point_or_panic(p.input) : e = compress(h) /\ h \in Point
    BY HashPoints
  <2>4. PICK o \in decompress(p.output) : rh1 = compress(Times(c, o))
    BY DEF multiply_ristretto
  <2>5. PICK base \in decompress(p.base) : rb = compress(PAdd(base, Times(c, pk)))
    BY <1>2, <1>4
  <2>6. PICK hash \in decompress(p.hash) : rh = compress(PAdd(hash, Times(c, o)))
    BY <1>5, <2>4
  <2>7. compress(Times(p.s, G)) = rb /\ compress(Times(p.s, h)) = rh
    BY <1>3, <1>6, <2>2, <2>3
  <2>8. Times(p.s, G) = PAdd(base, Times(c, pk))
    <3>1. Times(p.s, G) \in Point /\ PAdd(base, Times(c, pk)) \in Point
      BY <1>1, <1>6, <1>7, <1>8
    <3> QED BY <2>5, <2>7, <3>1, EncodingAssumption
  <2>9. Times(p.s, h) = PAdd(hash, Times(c, o))
    <3>1. Times(p.s, h) \in Point /\ PAdd(hash, Times(c, o)) \in Point
      BY <1>5, <1>6, <1>7, <1>9, <2>3
    <3> QED BY <2>6, <2>7, <3>1, EncodingAssumption
  <2> QED BY <2>3, <2>8, <2>9 DEF oracle_accepts
<1> QED BY <1>10, <1>11

-----------------------------------------------------------------------------
\* The equations.

\* s = k + c * sk satisfies both equations (compute_vrf and verify_vrf).
LEMMA HonestAccepted ==
  ASSUME sk \in Scalar, NEW k \in Scalar, NEW c \in Scalar, NEW p,
         NEW h \in hash_to_point_or_panic(p.input),
         p.output = compress(Times(sk, h)), p.base = compress(Times(k, G)),
         p.hash = compress(Times(k, h)), p.s = response(k, c)
  PROVE  oracle_accepts(p, c)
<1>1. h \in Point /\ G \in Point
  BY HashPoints, GroupAssumption
<1>2. \A q \in Point : /\ Times(sk, q) \in Point /\ Times(k, q) \in Point
                       /\ Times(p.s, q) = PAdd(Times(k, q), Times(c, Times(sk, q)))
  <2> SUFFICES ASSUME NEW q \in Point
               PROVE  /\ Times(sk, q) \in Point /\ Times(k, q) \in Point
                      /\ Times(p.s, q) = PAdd(Times(k, q), Times(c, Times(sk, q)))
    OBVIOUS
  <2>1. SMul(c, sk) \in Scalar
    BY GroupAssumption
  <2>2. Times(p.s, q) = PAdd(Times(k, q), Times(SMul(c, sk), q))
    BY <2>1, GroupAssumption DEF response
  <2>3. Times(SMul(c, sk), q) = Times(c, Times(sk, q))
    BY GroupAssumption
  <2>4. Times(sk, q) \in Point /\ Times(k, q) \in Point
    BY GroupAssumption
  <2> QED BY <2>2, <2>3, <2>4
<1>3. /\ Times(sk, h) \in decompress(p.output)
      /\ Times(k, G) \in decompress(p.base)
      /\ Times(k, h) \in decompress(p.hash)
  BY <1>1, <1>2, DecompressCompress
<1>4. Times(p.s, G) = PAdd(Times(k, G), Times(c, pk))
  BY <1>1, <1>2 DEF pk
<1>5. Times(p.s, h) = PAdd(Times(k, h), Times(c, Times(sk, h)))
  BY <1>1, <1>2
<1> QED BY <1>3, <1>4, <1>5, Zenon DEF oracle_accepts

\* An input has one hash point: the first candidate that is a point.
LEMMA OneHashPoint ==
  ASSUME NEW input, NEW g \in hash_to_point_or_panic(input),
         NEW h \in hash_to_point_or_panic(input)
  PROVE  g = h
<1> DEFINE first == first_point(input, HASH_TO_POINT_MAX_ATTEMPTS)
<1>1. \A e, f \in first : e = f
  <2> SUFFICES ASSUME NEW e \in first, NEW f \in first PROVE e = f
    OBVIOUS
  <2> DEFINE valid == {k \in 0 .. HASH_TO_POINT_MAX_ATTEMPTS - 1 :
                         decompress(candidate[input][k]) # {}}
  <2>1. PICK i \in valid : e = candidate[input][i] /\ \A k \in valid : i <= k
    BY DEF first_point
  <2>2. PICK j \in valid : f = candidate[input][j] /\ \A k \in valid : j <= k
    BY Zenon DEF first_point
  <2>3. i \in Int /\ j \in Int
    BY AttemptsAssumption
  <2>4. i <= j /\ j <= i
    BY <2>1, <2>2
  <2>5. i = j
    BY <2>3, <2>4
  <2> QED BY <2>1, <2>2, <2>5
<1>2. PICK e \in first : g \in decompress(e)
  BY DEF hash_to_point_or_panic
<1>3. PICK f \in first : h \in decompress(f)
  BY DEF hash_to_point_or_panic
<1>4. e = f
  BY <1>1
<1> QED BY <1>2, <1>3, <1>4, DecompressOne

\* The first equation fixes the response, so the second one is a line in the
\* challenge: b h + c (sk h) = hash + c output, for b with base = b G.
LEMMA ResponseLine ==
  ASSUME sk \in Scalar, NEW b \in Scalar, NEW c \in Scalar, NEW s \in Scalar,
         NEW h \in Point, Times(s, G) = PAdd(Times(b, G), Times(c, pk))
  PROVE  Times(s, h) = PAdd(Times(b, h), Times(c, Times(sk, h)))
<1>1. SMul(c, sk) \in Scalar /\ SAdd(b, SMul(c, sk)) \in Scalar /\ G \in Point
  BY GroupAssumption
<1>2. \A q \in Point : Times(SAdd(b, SMul(c, sk)), q) = PAdd(Times(b, q), Times(c, Times(sk, q)))
  <2> SUFFICES ASSUME NEW q \in Point
               PROVE  Times(SAdd(b, SMul(c, sk)), q) = PAdd(Times(b, q), Times(c, Times(sk, q)))
    OBVIOUS
  <2>1. Times(SAdd(b, SMul(c, sk)), q) = PAdd(Times(b, q), Times(SMul(c, sk), q))
    BY <1>1, GroupAssumption
  <2>2. Times(SMul(c, sk), q) = Times(c, Times(sk, q))
    BY GroupAssumption
  <2> QED BY <2>1, <2>2
<1>3. Times(s, G) = Times(SAdd(b, SMul(c, sk)), G)
  BY <1>1, <1>2 DEF pk
<1>4. s = SAdd(b, SMul(c, sk))
  BY <1>1, <1>3, GroupAssumption
<1> QED BY <1>2, <1>4

\* Two challenges for the same commitments: the output is sk * h.
LEMMA TwoChallenges ==
  ASSUME sk \in Scalar, NEW p, NEW q, NEW c \in Scalar, NEW d \in Scalar, c # d,
         p.s \in Scalar, q.s \in Scalar, p.input = q.input, p.output = q.output,
         p.base = q.base, p.hash = q.hash, oracle_accepts(p, c), oracle_accepts(q, d)
  PROVE  \E h \in hash_to_point_or_panic(p.input) : p.output = compress(Times(sk, h))
<1>1. PICK o \in decompress(p.output), base \in decompress(p.base),
           hash \in decompress(p.hash), h \in hash_to_point_or_panic(p.input) :
             /\ Times(p.s, G) = PAdd(base, Times(c, pk))
             /\ Times(p.s, h) = PAdd(hash, Times(c, o))
  BY DEF oracle_accepts
<1>2. /\ decompress(p.output) = {o} /\ decompress(p.base) = {base}
      /\ decompress(p.hash) = {hash} /\ {o, base, hash} \subseteq Point
      /\ p.output = compress(o)
  BY DecompressOne
<1>3. h \in Point
  BY HashPoints
<1>4. Times(q.s, G) = PAdd(base, Times(d, pk)) /\ Times(q.s, h) = PAdd(hash, Times(d, o))
  <2>1. PICK o2 \in decompress(q.output), base2 \in decompress(q.base),
             hash2 \in decompress(q.hash), h2 \in hash_to_point_or_panic(q.input) :
               /\ Times(q.s, G) = PAdd(base2, Times(d, pk))
               /\ Times(q.s, h2) = PAdd(hash2, Times(d, o2))
    BY DEF oracle_accepts
  <2>2. o2 = o /\ base2 = base /\ hash2 = hash
    BY <1>2
  <2>3. h2 = h
    BY OneHashPoint
  <2> QED BY <2>1, <2>2, <2>3
<1>5. PICK b \in Scalar : base = Times(b, G)
  BY <1>2, GroupAssumption
<1>6. Times(p.s, h) = PAdd(Times(b, h), Times(c, Times(sk, h)))
  BY <1>1, <1>3, <1>5, ResponseLine
<1>7. Times(q.s, h) = PAdd(Times(b, h), Times(d, Times(sk, h)))
  BY <1>3, <1>4, <1>5, ResponseLine
<1>8. Times(b, h) \in Point /\ Times(sk, h) \in Point
  BY <1>3, GroupAssumption
<1>9. Times(sk, h) = o
  <2>1. PAdd(Times(b, h), Times(c, Times(sk, h))) = PAdd(hash, Times(c, o))
    BY <1>1, <1>6
  <2>2. PAdd(Times(b, h), Times(d, Times(sk, h))) = PAdd(hash, Times(d, o))
    BY <1>4, <1>7
  <2>3. hash \in Point /\ o \in Point
    BY <1>2
  <2> DEFINE A == Times(b, h)
             X == Times(sk, h)
  <2>4. A \in Point /\ X \in Point /\ c # d
    BY <1>8
  <2>5. /\ PAdd(A, Times(c, X)) = PAdd(hash, Times(c, o))
        /\ PAdd(A, Times(d, X)) = PAdd(hash, Times(d, o))
    BY <2>1, <2>2
  <2> HIDE DEF A, X
  <2>6. X = o
    BY <2>3, <2>4, <2>5, LinesMeetOnce
  <2> QED BY <2>6 DEF X
<1> QED BY <1>2, <1>9

-----------------------------------------------------------------------------
\* The behaviours.

\* What the challenge hashes, for encodings of any points.
LEMMA ChallengeType ==
  ASSUME sk \in Scalar, NEW p, {p.output, p.base, p.hash} \subseteq Encoding, p.input \in Input
  PROVE  challenge_input(p) \in Challenges
<1>1. compress(pk) \in Encoding
  BY GroupAssumption, EncodingAssumption DEF pk
<1> QED BY <1>1 DEF challenge_input, Challenges

\* Type correctness.
LEMMA TypeCorrect == Spec => []TypeOK
<1>1. Init => TypeOK
  BY DEF Init, TypeOK
<1>2. TypeOK /\ [Next]_vars => TypeOK'
  <2> SUFFICES ASSUME TypeOK, [Next]_vars PROVE TypeOK'
    OBVIOUS
  <2>1. ASSUME NEW input \in Input, Compute(input) PROVE TypeOK'
    <3>1. PICK h \in hash_to_point_or_panic(input) :
            /\ hashed' = [hashed EXCEPT !.of = challenge_input(commitments(input, h))]
            /\ proof' = [commitments(input, h) EXCEPT !.s = response(nonce[input], hashed.is)]
      BY <2>1 DEF Compute
    <3>2. h \in Point /\ nonce[input] \in Scalar /\ hashed.is \in Scalar /\ sk \in Scalar
      BY HashPoints DEF TypeOK
    <3>3. response(nonce[input], hashed.is) \in Scalar
      BY <3>2, GroupAssumption, Zenon DEF response
    <3>4. /\ compress(Times(sk, h)) \in Encoding
          /\ compress(Times(nonce[input], G)) \in Encoding
          /\ compress(Times(nonce[input], h)) \in Encoding
      BY <3>2, GroupAssumption, EncodingAssumption, Zenon
    <3>5. proof' \in Proofs
      BY <3>1, <3>3, <3>4 DEF commitments, Proofs
    <3>6. challenge_input(commitments(input, h)) \in Challenges
      BY <3>2, <3>4, ChallengeType DEF commitments
    <3>7. hashed' \in [of : Challenges \union {<<>>}, is : Scalar, other : Scalar]
      BY <3>1, <3>6 DEF TypeOK
    <3> QED BY <2>1, <3>5, <3>7 DEF Compute, TypeOK
  <2>2. ASSUME NEW input \in Input, Panic(input) PROVE TypeOK'
    BY <2>2 DEF Panic, TypeOK
  <2>3. ASSUME NEW p \in Proofs, Submit(p) PROVE TypeOK'
    <3>1. challenge_input(p) \in Challenges
      BY ChallengeType DEF Proofs, TypeOK
    <3>2. hashed' \in [of : Challenges \union {<<>>}, is : Scalar, other : Scalar]
      BY <2>3, <3>1 DEF Submit, TypeOK
    <3> QED BY <2>3, <3>2 DEF Submit, TypeOK
  <2>4. CASE UNCHANGED vars
    BY <2>4 DEF vars, TypeOK
  <2> QED BY <2>1, <2>2, <2>3, <2>4 DEF Next
<1> QED BY <1>1, <1>2, PTL DEF Spec

\* What the oracle computed stays what it computed.
Honest ==
  stage = "computed" =>
    /\ hashed.of = challenge_input(proof)
    /\ \E input \in Input : \E h \in hash_to_point_or_panic(input) :
         proof = [commitments(input, h) EXCEPT !.s = response(nonce[input], hashed.is)]

\* What the oracle has produced is honest, always.
LEMMA HonestAlways == Spec => []Honest
<1>1. Init => Honest
  BY DEF Init, Honest
<1>2. TypeOK /\ Honest /\ [Next]_vars => Honest'
  <2> SUFFICES ASSUME TypeOK, Honest, [Next]_vars PROVE Honest'
    OBVIOUS
  <2>1. ASSUME NEW input \in Input, Compute(input) PROVE Honest'
    <3>1. PICK h \in hash_to_point_or_panic(input) :
            /\ hashed' = [hashed EXCEPT !.of = challenge_input(commitments(input, h))]
            /\ proof' = [commitments(input, h) EXCEPT !.s = response(nonce[input], hashed.is)]
      BY <2>1 DEF Compute
    <3>2. sk' = sk /\ nonce' = nonce /\ candidate' = candidate
      BY <2>1 DEF Compute
    <3>3. hashed'.is = hashed.is /\ hashed'.of = challenge_input(commitments(input, h))
      BY <3>1 DEF TypeOK
    <3>4. /\ proof'.input = input /\ proof'.output = commitments(input, h).output
          /\ proof'.base = commitments(input, h).base /\ proof'.hash = commitments(input, h).hash
          /\ commitments(input, h).input = input
      BY <3>1 DEF commitments
    <3>5. hashed'.of = challenge_input(proof)'
      BY <3>2, <3>3, <3>4 DEF challenge_input, pk
    <3>6. h \in hash_to_point_or_panic(input)'
      BY <3>2, ZenonT(60) DEF hash_to_point_or_panic, first_point
    <3>7. /\ commitments(input, h)' = commitments(input, h)
          /\ response(nonce[input], hashed.is)' = response(nonce[input], hashed.is)
      BY <3>2, <3>3 DEF commitments, response
    <3>8. proof' = [commitments(input, h) EXCEPT !.s = response(nonce[input], hashed.is)]'
      BY <3>1, <3>7
    <3> QED BY <3>5, <3>6, <3>8, Zenon DEF Honest
  <2>2. ASSUME NEW input \in Input, Panic(input) PROVE Honest'
    BY <2>2 DEF Panic, Honest
  <2>3. ASSUME NEW p \in Proofs, Submit(p) PROVE Honest'
    BY <2>3 DEF Submit, Honest
  <2>4. CASE UNCHANGED vars
    <3>1. /\ sk' = sk /\ nonce' = nonce /\ candidate' = candidate
          /\ hashed' = hashed /\ proof' = proof /\ stage' = stage
      BY <2>4 DEF vars
    <3>2. SUFFICES ASSUME stage = "computed"
                   PROVE  /\ hashed'.of = challenge_input(proof)'
                          /\ (\E input \in Input : \E h \in hash_to_point_or_panic(input) :
                                proof = [commitments(input, h) EXCEPT
                                           !.s = response(nonce[input], hashed.is)])'
      BY <3>1 DEF Honest
    <3>3. PICK input \in Input : \E h \in hash_to_point_or_panic(input) :
            proof = [commitments(input, h) EXCEPT !.s = response(nonce[input], hashed.is)]
      BY <3>2 DEF Honest
    <3>a. PICK h \in hash_to_point_or_panic(input) :
            proof = [commitments(input, h) EXCEPT !.s = response(nonce[input], hashed.is)]
      BY <3>3
    <3>4. hashed'.of = challenge_input(proof)'
      BY <3>1, <3>2 DEF Honest, challenge_input, pk
    <3>5. h \in hash_to_point_or_panic(input)'
      BY <3>1 DEF hash_to_point_or_panic, first_point
    <3>6. proof' = [commitments(input, h) EXCEPT !.s = response(nonce[input], hashed.is)]'
      BY <3>1, <3>a DEF commitments, response
    <3> QED BY <3>4, <3>5, <3>6, Zenon
  <2> QED BY <2>1, <2>2, <2>3, <2>4 DEF Next
<1> QED BY <1>1, <1>2, TypeCorrect, PTL DEF Spec

\* What compute_vrf returns passes both verifiers, in every group and for all hashes:
\* the assertion in prepare_vrf never fails, and neither does the program's check.
THEOREM CompleteThm == Spec => []Complete
<1>1. TypeOK /\ Honest => Complete
  <2> SUFFICES ASSUME TypeOK, Honest, stage = "computed"
               PROVE  oracle_accepts(proof, challenge(proof)) /\ program_accepts(proof, challenge(proof))
    BY DEF Complete
  <2>1. PICK input \in Input : \E h \in hash_to_point_or_panic(input) :
          proof = [commitments(input, h) EXCEPT !.s = response(nonce[input], hashed.is)]
    BY DEF Honest
  <2>a. PICK h \in hash_to_point_or_panic(input) :
          proof = [commitments(input, h) EXCEPT !.s = response(nonce[input], hashed.is)]
    BY <2>1
  <2>2. challenge(proof) = hashed.is /\ hashed.is \in Scalar
    BY DEF Honest, challenge, TypeOK
  <2>3. /\ proof.input = input /\ proof.output = compress(Times(sk, h))
        /\ proof.base = compress(Times(nonce[input], G))
        /\ proof.hash = compress(Times(nonce[input], h))
        /\ proof.s = response(nonce[input], hashed.is)
    BY <2>a DEF commitments
  <2>4. sk \in Scalar /\ nonce[input] \in Scalar /\ proof.s \in Scalar
    BY DEF TypeOK, Proofs
  <2>5. oracle_accepts(proof, hashed.is)
    BY <2>2, <2>3, <2>4, HonestAccepted
  <2> QED BY <2>2, <2>4, <2>5, SameVerdict
<1> QED BY <1>1, TypeCorrect, HonestAlways, PTL

\* The oracle's verifier and the program's agree on whatever is submitted.
THEOREM VerifiersAgreeThm == Spec => []VerifiersAgree
<1>1. TypeOK => VerifiersAgree
  <2> SUFFICES ASSUME TypeOK, stage = "submitted"
               PROVE  oracle_accepts(proof, challenge(proof)) <=> program_accepts(proof, challenge(proof))
    BY DEF VerifiersAgree
  <2>1. sk \in Scalar /\ proof.s \in Scalar /\ challenge(proof) \in Scalar
    BY DEF TypeOK, Proofs, challenge
  <2> QED BY <2>1, SameVerdict
<1> QED BY <1>1, TypeCorrect, PTL

\* A proof of a wrong output passes for one challenge at most.
THEOREM OutputBoundThm == Spec => []OutputBound
<1>1. TypeOK => OutputBound
  <2> SUFFICES ASSUME TypeOK, stage = "submitted", program_accepts(proof, challenge(proof)),
                      NEW c \in Scalar \ {challenge(proof)}, NEW s \in Scalar,
                      program_accepts([proof EXCEPT !.s = s], c)
               PROVE  \E h \in hash_to_point_or_panic(proof.input) :
                        proof.output = compress(Times(sk, h))
    BY DEF OutputBound
  <2> DEFINE q == [proof EXCEPT !.s = s]
  <2>1. /\ q.s = s /\ q.input = proof.input /\ q.output = proof.output
        /\ q.base = proof.base /\ q.hash = proof.hash
    BY DEF TypeOK, Proofs
  <2>2. sk \in Scalar /\ proof.s \in Scalar /\ challenge(proof) \in Scalar
    BY DEF TypeOK, Proofs, challenge
  <2> HIDE DEF q
  <2>3. oracle_accepts(proof, challenge(proof))
    BY <2>2, SameVerdict
  <2>4. oracle_accepts(q, c)
    <3>1. program_accepts(q, c)
      BY DEF q
    <3> QED BY <2>1, <2>2, <3>1, SameVerdict
  <2> QED BY <2>1, <2>2, <2>3, <2>4, TwoChallenges
<1> QED BY <1>1, TypeCorrect, PTL
=============================================================================
