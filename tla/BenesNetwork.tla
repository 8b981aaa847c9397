---------------------------- MODULE BenesNetwork ----------------------------
(***************************************************************************)
(* The permutation network of the Zinc+ backend: 2 v - 1 layers of         *)
(* conditional swaps on 2^v wires.  route computes switches that realize a *)
(* permutation, block by block; a block colours its inputs by walks that   *)
(* alternate between the mates of its entry and of its exit layer.         *)
(***************************************************************************)
EXTENDS Integers, Sequences, FiniteSets, Functions

\* 1 << n.
PowerOf2[n \in Nat] == IF n = 0 THEN 1 ELSE 2 * PowerOf2[n - 1]

\* The bit of a wire's number in which the two wires of a switch differ.
StrideBit(v, layer) == IF layer < v THEN v - 1 - layer ELSE layer - v + 1

NumLayers(v) == 2 * v - 1
Layers(v) == 0 .. NumLayers(v) - 1
Wires(v) == 0 .. PowerOf2[v] - 1

Stride(v, layer) == PowerOf2[StrideBit(v, layer)]

\* upper_k: bit k of the wire is zero.
IsUpper(wire, k) == (wire \div PowerOf2[k]) % 2 = 0
UpperWires(v, layer) == {i \in Wires(v) : IsUpper(i, StrideBit(v, layer))}

\* The wire that a switch of the layer pairs with wire i.
Partner(v, layer, i) ==
  IF IsUpper(i, StrideBit(v, layer)) THEN i + Stride(v, layer) ELSE i - Stride(v, layer)

\* The upper wire of that switch, where its bit is.
SwitchAt(v, layer, i) == IF IsUpper(i, StrideBit(v, layer)) THEN i ELSE Partner(v, layer, i)

ApplyLayer(state, v, layer, bits) ==
  [i \in Wires(v) |->
     IF bits[SwitchAt(v, layer, i)] THEN state[Partner(v, layer, i)] ELSE state[i]]

-----------------------------------------------------------------------------
VARIABLES
  perm,        \* the permutation to route: output j is input perm[j]
  numVars,     \* v, the logarithm of the number of wires
  stage,       \* what the router, or the prover around it, does next
  blocks,      \* the blocks that are still to be routed, the next one first
  color,       \* colours of the inputs of the block: the sub-network they take
  walk,        \* the walk along a cycle of mates
  switches     \* the bits set so far

routeVars == <<perm, numVars, stage, blocks, color, walk, switches>>

Uncolored == 255   \* u8::MAX
NoWalk == [start |-> 0, at |-> 0, color |-> 0, viaEntry |-> TRUE]

Block == Head(blocks)
Size == Cardinality(DOMAIN Block.perm)
Half == Size \div 2

EntryMate(i) == (i + Half) % Size
InverseOf(p, i) == CHOOSE j \in DOMAIN p : p[j] = i
\* Mutant of ExitMate: the partner of the input, not of its destination.
ExitMateOfInput(i) == Block.perm[(i + Half) % Size]

ExitMate(i) == Block.perm[(InverseOf(Block.perm, i) + Half) % Size]

-----------------------------------------------------------------------------
\* route: all switches pass, and the whole network is one block.
Route ==
  /\ stage = "route"
  /\ IsInjective(perm)
  /\ switches' = [l \in Layers(numVars) |-> [i \in Wires(numVars) |-> FALSE]]
  /\ blocks' = <<[perm |-> perm, base |-> 0, depth |-> 0]>>
  /\ stage' = "block"
  /\ UNCHANGED <<perm, numVars, color, walk>>

\* The assertion that the input is a permutation.
NotAPermutation ==
  /\ stage = "route"
  /\ ~ IsInjective(perm)
  /\ stage' = "panicked"
  /\ UNCHANGED <<perm, numVars, blocks, color, walk, switches>>

\* Mutant of MiddleBlock: the block is not taken from the blocks to route.
MiddleBlockStays ==
  /\ stage = "block"
  /\ blocks # <<>>
  /\ Size = 2
  /\ switches' = [switches EXCEPT ![numVars - 1][Block.base] = (Block.perm[0] = 1)]
  /\ UNCHANGED <<perm, numVars, stage, blocks, color, walk>>

\* route_block on two wires: a switch of the middle layer.
MiddleBlock ==
  /\ stage = "block"
  /\ blocks # <<>>
  /\ Size = 2
  /\ switches' = [switches EXCEPT ![numVars - 1][Block.base] = (Block.perm[0] = 1)]
  /\ blocks' = Tail(blocks)
  /\ UNCHANGED <<perm, numVars, stage, color, walk>>

OpenBlock ==
  /\ stage = "block"
  /\ blocks # <<>>
  /\ Size > 2
  /\ color' = [i \in DOMAIN Block.perm |-> Uncolored]
  /\ stage' = "scan"
  /\ UNCHANGED <<perm, numVars, blocks, walk, switches>>

\* The next input that no walk has coloured starts one.
StartWalk ==
  /\ stage = "scan"
  /\ \E s \in DOMAIN color :
       /\ color[s] = Uncolored
       /\ \A i \in DOMAIN color : i < s => color[i] # Uncolored
       /\ walk' = [start |-> s, at |-> s, color |-> 0, viaEntry |-> TRUE]
  /\ stage' = "walk"
  /\ UNCHANGED <<perm, numVars, blocks, color, switches>>

\* One round of the loop: colour, alternate, and stop at the start.
Walk ==
  LET next == IF walk.viaEntry THEN EntryMate(walk.at) ELSE ExitMate(walk.at) IN
  /\ stage = "walk"
  /\ color' = [color EXCEPT ![walk.at] = walk.color]
  /\ walk' = [walk EXCEPT !.at = next, !.color = 1 - @, !.viaEntry = ~ @]
  /\ stage' = IF next = walk.start THEN "scan" ELSE "walk"
  /\ UNCHANGED <<perm, numVars, blocks, switches>>

\* The permutation of the sub-network of colour c.
SubPerm(c) ==
  [j \in 0 .. Half - 1 |->
     IF color[Block.perm[j]] = c THEN Block.perm[j] % Half ELSE Block.perm[j + Half] % Half]

Colored == stage = "scan" /\ \A i \in DOMAIN color : color[i] # Uncolored

\* The entry layer sends an input to the sub-network of its colour, the exit
\* layer fetches an output from that of its source; then both are routed.
CloseBlock ==
  /\ Colored
  /\ switches' =
       [switches EXCEPT
          ![Block.depth] = [i \in DOMAIN @ |->
             IF i - Block.base \in 0 .. Half - 1 THEN color[i - Block.base] = 1 ELSE @[i]],
          ![2 * numVars - 2 - Block.depth] = [i \in DOMAIN @ |->
             IF i - Block.base \in 0 .. Half - 1
             THEN color[Block.perm[i - Block.base]] = 1 ELSE @[i]]]
  /\ blocks' =
       <<[perm |-> SubPerm(0), base |-> Block.base, depth |-> Block.depth + 1],
         [perm |-> SubPerm(1), base |-> Block.base + Half, depth |-> Block.depth + 1]>>
       \o Tail(blocks)
  /\ stage' = "block"
  /\ color' = <<>>
  /\ walk' = NoWalk
  /\ UNCHANGED <<perm, numVars>>

Routing ==
  \/ Route
  \/ NotAPermutation
  \/ MiddleBlock
  \/ OpenBlock
  \/ StartWalk
  \/ Walk
  \/ CloseBlock

\* All blocks are routed.
Routed == stage = "block" /\ blocks = <<>>

-----------------------------------------------------------------------------
\* The assertions of route_block: a walk colours no input twice, and mates of
\* the entry layer, and those of the exit layer, take different sub-networks.
MatesAreSplit ==
  /\ stage = "walk" => color[walk.at] = Uncolored
  /\ Colored => \A i \in DOMAIN color :
                  color[i] # color[EntryMate(i)] /\ color[i] # color[ExitMate(i)]
=============================================================================
