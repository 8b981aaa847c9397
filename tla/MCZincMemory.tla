---------------------------- MODULE MCZincMemory ----------------------------
(***************************************************************************)
(* An instance of ZincMemory for TLC: limbs of four values, networks on    *)
(* four and eight wires.                                                   *)
(***************************************************************************)
EXTENDS ZincMemory

CONSTANTS ShortLength, LongLength   \* bounds on the records of a trace

Record(t, i, a, v) ==
  [time_log |-> t, stack_depth |-> 0, instruction |-> i, address |-> a, value |-> v]

\* Times with gaps, across limbs, out of order, repeated, and at the end of the domain.
Records ==
  {Record(t, i, a, v) : t \in {0, 4, 14, 15}, i \in {"Read", "Write"},
                        a \in {0, 1}, v \in {0, 1}}
ShortTraces == UNION {[1 .. n -> Records] : n \in 0 .. ShortLength}

\* Writes to distinct addresses in every order: all permutations that the
\* builder routes on eight wires, the last of which is padding.
LongTraces ==
  {[i \in 1 .. LongLength |-> Record(i - 1, "Write", p[i], 0)]
     : p \in Bijection(1 .. LongLength, 1 .. LongLength)}

TooLong == [i \in 1 .. LongLength + 1 |-> Record(i - 1, "Write", 0, 0)]

MCTraces == ShortTraces \cup LongTraces \cup {TooLong}

\* Address, time, depth, value and instruction, the last not only 0 and 1.
RowOf(a, t, v, i) ==
  LET cells == <<0, a, t \div LimbBase, t % LimbBase, 0, v, i>>
  IN [p \in Payload |-> cells[p + 1]]
MCFreeRows ==
  {RowOf(key[1], key[2], v, i)
     : key \in {<<0, 0>>, <<0, 1>>, <<0, 4>>, <<1, 0>>, <<1, 1>>, <<1, 2>>, <<1, 4>>},
       v \in {0, 1}, i \in {0, 1, 2}}
=============================================================================
