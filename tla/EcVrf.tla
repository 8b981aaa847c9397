------------------------------- MODULE EcVrf --------------------------------
(***************************************************************************)
(* ECVRF of libecvrf, with the curve's real algebra: the ordinary prover   *)
(* and its verifier, the prover for contracts, and the double check of the *)
(* node, which runs the deployed contract on the proof.                    *)
(***************************************************************************)
EXTENDS Secp256k1

CONSTANTS
  SecretKeys,       \* the keys an ECVRF is created with
  Alphas,           \* the seeds that are proved
  Draws,            \* the words that the random generator may return
  MaxRetries        \* MAX_RETRIES

ASSUME EcVrfAssumption ==
  /\ SecretKeys \subseteq Scalars \ {0}
  /\ Alphas \subseteq Scalars
  /\ Draws \subseteq Hashes
  /\ MaxRetries \in Nat

\* Hashing a coordinate again and again comes to one of a point.
ASSUME HashingReachesTheCurve ==
  \A x \in Field :
    LET chain[i \in 0 .. FieldSize] == IF i = 0 THEN x ELSE FieldHash(<<chain[i - 1]>>)
    IN \E i \in 0 .. FieldSize : IsOnCurve(CandidatePoint(chain[i]))

VARIABLES
  pc,           \* what is done next, or the outcome
  kind,         \* prove_contract or prove
  sk,           \* the secret key
  alpha,        \* the seed
  h,            \* the point that the seed is hashed to
  k,            \* the nonce of the proof
  retries,
  proof

vars == <<pc, kind, sk, alpha, h, k, retries, proof>>

Pk == EcMultGen(sk)

NoProof ==
  [gamma |-> Infinity, c |-> 0, s |-> 0, y |-> 0, witness_address |-> 0,
   witness_gamma |-> Infinity, witness_hash |-> Infinity, inverse_z |-> 0]

\* ECVRF::new.
Init ==
  /\ pc = "idle"
  /\ kind = "none"
  /\ sk \in SecretKeys
  /\ alpha = 0
  /\ h = Infinity
  /\ k = 0
  /\ retries = 0
  /\ proof = NoProof

-----------------------------------------------------------------------------
\* prove_contract, and hash_to_curve_prefix up to its loop.
ProveContract(seed) ==
  /\ pc = "idle"
  /\ kind' = "contract"
  /\ alpha' = seed
  /\ h' = NewCandidatePoint(<<1>> \o Xy(Pk) \o <<seed>>)
  /\ pc' = "hash"
  /\ UNCHANGED <<sk, k, retries, proof>>

\* The loop of hash_to_curve_prefix.
NextCandidate ==
  /\ pc = "hash"
  /\ ~IsOnCurve(h)
  /\ h' = NewCandidatePoint(<<h.x>>)
  /\ UNCHANGED <<pc, kind, sk, alpha, k, retries, proof>>

OnCurve ==
  /\ pc = "hash"
  /\ IsOnCurve(h)
  /\ pc' = "draw"
  /\ UNCHANGED <<kind, sk, alpha, h, k, retries, proof>>

\* prove, up to its nonce.
Prove(seed) ==
  /\ pc = "idle"
  /\ kind' = "ordinary"
  /\ alpha' = seed
  /\ h' = HashToCurve(seed, Pk)
  /\ pc' = "draw"
  /\ UNCHANGED <<sk, k, retries, proof>>

\* Scalar::randomize.
Draw(word) ==
  /\ pc = "draw"
  /\ k' = FromWord(word)
  /\ pc' = "nonce"
  /\ UNCHANGED <<kind, sk, alpha, h, retries, proof>>

\* Mutant of IsBadNonce: zero is a nonce.
IsBadNonceZero(a) == Gte(Limbs(a), Limbs(GroupOrder))

\* The condition of the loop that draws the nonce.
IsBadNonce(a) == Gte(Limbs(a), Limbs(GroupOrder)) \/ a = 0

Retry ==
  /\ pc = "nonce"
  /\ IsBadNonce(k)
  /\ retries <= MaxRetries
  /\ retries' = retries + 1
  /\ pc' = "draw"
  /\ UNCHANGED <<kind, sk, alpha, h, k, proof>>

RetriesExceeded ==
  /\ pc = "nonce"
  /\ IsBadNonce(k)
  /\ retries > MaxRetries
  /\ pc' = "RetriesExceeded"
  /\ UNCHANGED <<kind, sk, alpha, h, k, retries, proof>>

-----------------------------------------------------------------------------
\* hash_points_prefix, before and after it is made a scalar.
RawChallenge(hash, pk, gamma, address, kh) ==
  Keccak(<<2>> \o Xy(hash) \o Xy(pk) \o Xy(gamma) \o Xy(kh) \o <<address>>)

\* hash_points.
HashPoints(hash, pk, gamma, kg, kh) ==
  FromWord(Keccak(Xy(Generator) \o Xy(hash) \o Xy(pk) \o Xy(gamma) \o Xy(kg) \o Xy(kh)))

\* keccak256 of a point as a scalar.
Output(gamma) == FromWord(Keccak(Xy(gamma)))

\* s = k - c * sk.
Response(c) == (k - c * sk) % GroupOrder

\* The rest of prove_contract.
ContractProof ==
  LET gamma == EcMult(h, sk)
      kg == EcMultGen(k)
      c == FromWord(RawChallenge(h, Pk, gamma, AddressOf(kg), EcMult(h, k)))
      s == Response(c)
      wg == EcMult(gamma, c)
      wh == EcMult(h, s)
  IN
  /\ pc = "nonce"
  /\ ~IsBadNonce(k)
  /\ kind = "contract"
  /\ proof' = [gamma |-> gamma, c |-> c, s |-> s, y |-> Output(gamma),
               witness_address |-> WitnessScalar(kg),
               witness_gamma |-> wg, witness_hash |-> wh,
               inverse_z |-> Inv(ProjectiveEcAdd(wg, wh).z)]
  /\ pc' = "proved"
  /\ UNCHANGED <<kind, sk, alpha, h, k, retries>>

\* The rest of prove.
OrdinaryProof ==
  LET gamma == EcMult(h, sk)
      c == HashPoints(h, Pk, gamma, EcMultGen(k), EcMult(h, k))
  IN
  /\ pc = "nonce"
  /\ ~IsBadNonce(k)
  /\ kind = "ordinary"
  /\ proof' = [NoProof EXCEPT !.gamma = gamma, !.c = c, !.s = Response(c), !.y = Output(gamma)]
  /\ pc' = "proved"
  /\ UNCHANGED <<kind, sk, alpha, h, k, retries>>

-----------------------------------------------------------------------------
\* verify of a proof that is given with a value y.
Verify(y) ==
  LET u == Add(EcMult(Pk, proof.c), EcMultGen(proof.s))
      v == Add(EcMult(proof.gamma, proof.c), EcMult(HashToCurve(alpha, Pk), proof.s))
  IN
  /\ pc = "proved"
  /\ kind = "ordinary"
  /\ ~proof.gamma.infinity
  /\ pc' = IF /\ HashPoints(HashToCurve(alpha, Pk), Pk, proof.gamma, u, v) = proof.c
              /\ Output(proof.gamma) = y
           THEN "accepted" ELSE "refused"
  /\ proof' = [proof EXCEPT !.y = y]
  /\ UNCHANGED <<kind, sk, alpha, h, k, retries>>

\* The assertion on gamma in verify: the seed was hashed to the point at infinity.
InvalidGamma ==
  /\ pc = "proved"
  /\ kind = "ordinary"
  /\ proof.gamma.infinity
  /\ pc' = "panicked"
  /\ UNCHANGED <<kind, sk, alpha, h, k, retries, proof>>

-----------------------------------------------------------------------------
(***************************************************************************)
(* The deployed contract, whose bytecode evm_verify runs.                  *)
(***************************************************************************)
\* fieldHash: the word is not reduced, and is hashed until it is a coordinate.
FirstInField[word \in Hashes] == IF word < FieldSize THEN word ELSE FirstInField[Keccak(<<word>>)]

FirstOnCurve[word \in Hashes] ==
  LET p == CandidatePoint(FirstInField[word])
  IN IF IsOnCurve(p) THEN p ELSE FirstOnCurve[Keccak(<<p.x>>)]

ContractHashToCurve(pk, seed) == FirstOnCurve[Keccak(<<1>> \o Xy(pk) \o <<seed>>)]

\* This comes to an end, too.
ASSUME ContractReachesTheCurve == \A word \in Hashes : FirstOnCurve[word] \in Curve

\* ecrecover takes no coordinate beyond the order, and no signature that is zero.
Recoverable(p, scalar) == p.x \in 1 .. GroupOrder - 1 /\ scalar # 0

\* The common denominator of the contract's sum of two points.
ContractZ(a, b) ==
  LET d == b.x - a.x
  IN IF d % FieldSize = 1 THEN 1 ELSE (d * d * d * d * d) % FieldSize

ContractAccepts ==
  LET hash == ContractHashToCurve(Pk, alpha)
      address == WitnessBytes(proof.witness_address)
      u == Add(EcMult(Pk, proof.c), EcMultGen(proof.s))
      wg == proof.witness_gamma
      wh == proof.witness_hash
  IN /\ \A p \in {Pk, proof.gamma, wg, wh} : IsOnCurve(p)
     /\ address # 0
     /\ Recoverable(Pk, proof.c) /\ ~u.infinity /\ AddressOf(u) = address
     /\ wg.x # wh.x
     /\ Recoverable(proof.gamma, proof.c) /\ EcMult(proof.gamma, proof.c) = wg
     /\ Recoverable(hash, proof.s) /\ EcMult(hash, proof.s) = wh
     /\ (ContractZ(wg, wh) * proof.inverse_z) % FieldSize = 1
     /\ RawChallenge(hash, Pk, proof.gamma, address, Add(wg, wh)) = proof.c

\* evm_verify: the contract returns the hash of gamma, which has to be y.
EvmVerify ==
  /\ pc = "proved"
  /\ kind = "contract"
  /\ pc' = IF ContractAccepts /\ Output(proof.gamma) = proof.y THEN "confirmed" ELSE "denied"
  /\ UNCHANGED <<kind, sk, alpha, h, k, retries, proof>>

Next ==
  \/ \E seed \in Alphas : ProveContract(seed) \/ Prove(seed)
  \/ NextCandidate
  \/ OnCurve
  \/ \E word \in Draws : Draw(word)
  \/ Retry
  \/ RetriesExceeded
  \/ ContractProof
  \/ OrdinaryProof
  \/ \E y \in {proof.y, (proof.y + 1) % GroupOrder} : Verify(y)
  \/ InvalidGamma
  \/ EvmVerify

Spec == Init /\ [][Next]_vars

-----------------------------------------------------------------------------

\* The response s of a proof never is -c * sk, from which anyone could compute the secret
\* key: a nonce that is zero, or a word that becomes zero when it is reduced, is drawn
\* again (the loop of prove and of prove_contract).
NonceHidesKey ==
  pc \in {"proved", "accepted", "refused", "confirmed", "denied"} =>
    (proof.s + proof.c * sk) % GroupOrder # 0

\* The verifier accepts what the prover made with any key, seed and nonce, and refuses
\* it with another value y; the one seed that is hashed to infinity cannot be verified
\* (ECVRF::prove and verify).
ProofsVerify ==
  /\ pc = "accepted" => proof.y = Output(EcMult(HashToCurve(alpha, Pk), sk))
  /\ pc = "refused" => proof.y # Output(proof.gamma)
  /\ pc = "panicked" => (alpha + sk) % GroupOrder = 0

\* Where the words that the prover reduces differ from those that the contract does not,
\* or where the contract's arithmetic has no answer.
AtAnEdge ==
  LET address == AddressOf(EcMultGen(k)) IN
  \/ h # ContractHashToCurve(Pk, alpha)
  \/ RawChallenge(h, Pk, proof.gamma, address, EcMult(h, k)) >= GroupOrder
  \/ address = 0 \/ address * Shift >= GroupOrder
  \/ proof.c = 0 \/ proof.s = 0
  \/ \E p \in {Pk, proof.gamma, h} : p.x \notin 1 .. GroupOrder - 1
  \/ proof.witness_gamma.x = proof.witness_hash.x

\* The contract confirms every proof of prove_contract but those at an edge, and what it
\* confirms is the one value that the key gives to the seed, whatever the nonce
\* (prove_contract, projective_ec_add and evm_verify).
DoubleCheck ==
  /\ pc = "denied" => AtAnEdge
  /\ pc = "confirmed" =>
       /\ ~AtAnEdge
       /\ proof.y = Output(EcMult(ContractHashToCurve(Pk, alpha), sk))
=============================================================================
