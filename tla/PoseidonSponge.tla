--------------------------- MODULE PoseidonSponge ---------------------------
(***************************************************************************)
(* The Poseidon hash twice, in lockstep: the native sponge of              *)
(* poseidon_hash.rs, which permutes its state at once, and the chip of     *)
(* gadgets.rs and circuit.rs, which assigns one row of the circuit for a   *)
(* full round and one for every two partial rounds.  The gates relate a    *)
(* row with the next one.                                                  *)
(***************************************************************************)
EXTENDS Integers, Sequences

CONSTANTS
  Prime,                        \* the order of the field
  Width,                        \* T: words of the state, one more than the rate R
  FullRounds, PartialRounds,    \* 8 and 56 in the code
  RoundConstants, Mds, MdsInv,
  Capacity                      \* the capacity element of a message length

Field == 0 .. Prime - 1
Rate == Width - 1
Index == 0 .. Width - 1
States == [Index -> Field]

Rounds == FullRounds + PartialRounds
HalfFull == FullRounds \div 2
HalfPartial == PartialRounds \div 2

Dot(u, v) ==
  LET sum[n \in 0 .. Width] == IF n = 0 THEN 0 ELSE sum[n - 1] + u[n - 1] * v[n - 1]
  IN sum[Width] % Prime

Column(matrix, j) == [k \in Index |-> matrix[k][j]]

ASSUME PoseidonAssumption ==
  /\ Prime \in Nat /\ Prime > 1
  /\ Width \in Nat /\ Width > 1
  /\ FullRounds \in Nat /\ FullRounds % 2 = 0
  /\ PartialRounds \in Nat /\ PartialRounds % 2 = 0
  /\ RoundConstants \in [0 .. Rounds - 1 -> States]
  /\ {Mds, MdsInv} \subseteq [Index -> States]
  /\ \A i, j \in Index :
       /\ Dot(Mds[i], Column(MdsInv, j)) = IF i = j THEN 1 ELSE 0
       /\ Dot(MdsInv[i], Column(Mds, j)) = IF i = j THEN 1 ELSE 0
  /\ \A length \in DOMAIN Capacity : Capacity[length] \in Field

-----------------------------------------------------------------------------
(***************************************************************************)
(* The native permutation.                                                 *)
(***************************************************************************)
Pow5(x) == (x * x * x * x * x) % Prime

Mix(matrix, s) == [i \in Index |-> Dot(matrix[i], s)]

AddConstants(s, r) == [i \in Index |-> (s[i] + RoundConstants[r][i]) % Prime]

FullRound(s, r) ==
  LET t == AddConstants(s, r) IN Mix(Mds, [i \in Index |-> Pow5(t[i])])

\* In a partial round the S-box is only applied to the first word.
PartRound(s, r) ==
  LET t == AddConstants(s, r) IN Mix(Mds, [t EXCEPT ![0] = Pow5(@)])

\* Mutant of Permute: the last full rounds use the constants of the first ones.
PermuteFirstConstants(s) ==
  LET after[n \in 0 .. Rounds] ==
        IF n = 0 THEN s
        ELSE IF n - 1 < HalfFull \/ n - 1 >= HalfFull + PartialRounds
        THEN FullRound(after[n - 1], (n - 1) % (HalfFull + PartialRounds))
        ELSE PartRound(after[n - 1], n - 1)
  IN after[Rounds]

Permute(s) ==
  LET after[n \in 0 .. Rounds] ==
        IF n = 0 THEN s
        ELSE IF n - 1 < HalfFull \/ n - 1 >= HalfFull + PartialRounds
        THEN FullRound(after[n - 1], n - 1)
        ELSE PartRound(after[n - 1], n - 1)
  IN after[Rounds]

-----------------------------------------------------------------------------
(***************************************************************************)
(* The rows of the chip's permutation and the gates between them.          *)
(***************************************************************************)
RowCount == FullRounds + HalfPartial

IsPartialRow(row) == row \in HalfFull .. HalfFull + HalfPartial - 1

\* The round whose constants are in rc_a of the row; rc_b has those of the next.
RoundOfRow(row) ==
  IF row < HalfFull THEN row
  ELSE IF IsPartialRow(row) THEN HalfFull + 2 * (row - HalfFull)
  ELSE row + HalfPartial

\* The gate "full round".
FullGate(s, r, next) ==
  LET boxed == [j \in Index |-> Pow5((s[j] + RoundConstants[r][j]) % Prime)]
  IN \A i \in Index : Dot(Mds[i], boxed) = next[i]

\* Mutant of PartialGate: nothing relates the first word after the rounds.
PartialGateOpen(s, r, sbox, next) ==
  LET mixed == [j \in Index |-> IF j = 0 THEN sbox ELSE s[j] + RoundConstants[r][j]]
      mid(i) == (Dot(Mds[i], mixed) + RoundConstants[r + 1][i]) % Prime
  IN /\ Pow5((s[0] + RoundConstants[r][0]) % Prime) = sbox
     /\ \A i \in Index \ {0} : mid(i) = Dot(MdsInv[i], next)

\* The gate "partial rounds": the state between the two rounds from the left,
\* the state after them through the inverse matrix from the right.
PartialGate(s, r, sbox, next) ==
  LET mixed == [j \in Index |-> IF j = 0 THEN sbox ELSE s[j] + RoundConstants[r][j]]
      mid(i) == (Dot(Mds[i], mixed) + RoundConstants[r + 1][i]) % Prime
  IN /\ Pow5((s[0] + RoundConstants[r][0]) % Prime) = sbox
     /\ Pow5(mid(0)) = Dot(MdsInv[0], next)
     /\ \A i \in Index \ {0} : mid(i) = Dot(MdsInv[i], next)

RowGate(s, row, sbox, next) ==
  IF IsPartialRow(row)
  THEN PartialGate(s, RoundOfRow(row), sbox, next)
  ELSE FullGate(s, RoundOfRow(row), next)

\* What partial_round assigns to the column partial_sbox.
SboxCell(s, row) == Pow5((s[0] + RoundConstants[RoundOfRow(row)][0]) % Prime)

\* What full_round and partial_round assign to the next row.
NextRow(s, row) ==
  LET r == RoundOfRow(row) IN
  IF IsPartialRow(row) THEN PartRound(PartRound(s, r), r + 1) ELSE FullRound(s, r)

-----------------------------------------------------------------------------
(***************************************************************************)
(* The two sponges.  A word has the chip's value and the native one.       *)
(***************************************************************************)
VARIABLES
  hashing,    \* what the sponges do next
  words,      \* the words that are still to be absorbed, padding included
  mode,       \* the words absorbed since the last permutation
  native,     \* the state of the native sponge
  chip,       \* the state in the row that the chip assigned last
  row,        \* that row's offset in the permutation
  gates       \* do the gates hold on all the rows assigned so far?

spongeVars == <<hashing, words, mode, native, chip, row, gates>>

InitialState(length) ==
  [i \in Index |-> IF i = Rate THEN Capacity[length] ELSE 0]

\* ConstantLength::padding: zeros up to a multiple of the rate.
Padding(length) ==
  LET blocks == (length + Rate - 1) \div Rate
  IN [i \in 1 .. blocks * Rate - length |-> [chip |-> 0, native |-> 0]]

SpongeInit ==
  /\ hashing = "idle"
  /\ words = <<>>
  /\ mode = <<>>
  /\ native = [i \in Index |-> 0]
  /\ chip = [i \in Index |-> 0]
  /\ row = 0
  /\ gates = TRUE

\* Hash::init, and hash up to its loop.
StartHash(message) ==
  /\ hashing' = "absorb"
  /\ words' = message \o Padding(Len(message))
  /\ mode' = <<>>
  /\ native' = InitialState(Len(message))
  /\ chip' = InitialState(Len(message))
  /\ row' = 0
  /\ UNCHANGED gates

Absorb ==
  /\ hashing = "absorb"
  /\ words # <<>>
  /\ Len(mode) < Rate
  /\ mode' = Append(mode, Head(words))
  /\ words' = Tail(words)
  /\ UNCHANGED <<hashing, native, chip, row, gates>>

\* add_input: the capacity element is never altered by the input.
AddInput(s, input) ==
  [i \in Index |-> IF i < Rate THEN (s[i] + input[i + 1]) % Prime ELSE s[i]]

\* The gate "pad-and-add".
AddGate(s, input, next) ==
  /\ \A i \in 0 .. Rate - 1 : (s[i] + input[i + 1] - next[i]) % Prime = 0
  /\ s[Rate] = next[Rate]

\* poseidon_sponge: the native permutation, and the first row of the chip's.
Sponge ==
  LET inputs == [i \in 1 .. Rate |-> mode[i].chip] IN
  /\ native' = Permute(AddInput(native, [i \in 1 .. Rate |-> mode[i].native]))
  /\ chip' = AddInput(chip, inputs)
  /\ gates' = (gates /\ AddGate(chip, inputs, AddInput(chip, inputs)))
  /\ row' = 0

\* absorb into a full block: permute, and the word begins the next block.
AbsorbFull ==
  /\ hashing = "absorb"
  /\ words # <<>>
  /\ Len(mode) = Rate
  /\ Sponge
  /\ mode' = <<Head(words)>>
  /\ words' = Tail(words)
  /\ hashing' = "more"

FinishAbsorbing ==
  /\ hashing = "absorb"
  /\ words = <<>>
  /\ Len(mode) = Rate
  /\ Sponge
  /\ mode' = <<>>
  /\ hashing' = "last"
  /\ UNCHANGED words

\* "poseidon_sponge is called with a padded input", "Input is not padded".
NotPadded ==
  /\ hashing = "absorb"
  /\ words = <<>>
  /\ Len(mode) < Rate
  /\ hashing' = "panicked"
  /\ UNCHANGED <<words, mode, native, chip, row, gates>>

\* permute of the chip, a row at a time.
AssignRow ==
  /\ hashing \in {"more", "last"}
  /\ row < RowCount
  /\ chip' = NextRow(chip, row)
  /\ gates' = (gates /\ RowGate(chip, row, SboxCell(chip, row), NextRow(chip, row)))
  /\ row' = row + 1
  /\ UNCHANGED <<hashing, words, mode, native>>

PermutationDone ==
  /\ hashing \in {"more", "last"}
  /\ row = RowCount
  /\ hashing' = IF hashing = "more" THEN "absorb" ELSE "squeeze"
  /\ UNCHANGED <<words, mode, native, chip, row, gates>>

Hashing ==
  \/ Absorb
  \/ AbsorbFull
  \/ FinishAbsorbing
  \/ NotPadded
  \/ AssignRow
  \/ PermutationDone

\* get_output and squeeze: the first word of the state.
Squeezed == [chip |-> chip[0], native |-> native[0]]

-----------------------------------------------------------------------------
\* A row is the only one that the gates allow after the row before it, so that
\* a circuit that is satisfied contains the permutation of its input
\* (the gates of PoseidonConfig::configure).
RowsAreForced ==
  hashing \in {"more", "last"} /\ row < RowCount =>
    \A next \in States :
      (\E sbox \in IF IsPartialRow(row) THEN Field ELSE {0} : RowGate(chip, row, sbox, next))
        => next = NextRow(chip, row)
=============================================================================
