--------------------------- MODULE MCComputeUnit ---------------------------
(***************************************************************************)
(* Instances of ComputeUnit: a group of two waves and one of one wave, and *)
(* their programs.                                                         *)
(***************************************************************************)
EXTENDS ComputeUnit

CONSTANTS a, b, c, pair, single, s1

Groups  == [w \in Wave |-> IF w = c THEN single ELSE pair]
OneSIMD == [w \in Wave |-> s1]

Do(k)      == [kind |-> k, vmcnt |-> 0, lgkmcnt |-> 0]
Wait(v, l) == [kind |-> "waitcnt", vmcnt |-> v, lgkmcnt |-> l]
Plain(p)   == [i \in DOMAIN p |-> Do(p[i])]

Setup(g, lines, prog, jumps, flushes, sampling) ==
  [groups |-> {g}, lines |-> lines, prog |-> [w \in Wave |-> prog], jumps |-> jumps,
   flushes |-> flushes, sampling |-> sampling]

All(jumps)  == [w \in Wave |-> jumps]
Straight    == All(<<>>)
Apart(p, q) == [w \in Wave |-> IF w = a THEN p ELSE q]

\* Barriers, once and in a loop, and full waits, of two waves.
PairSetups ==
  {Setup(pair, 1, Plain(<<"flat", "barrier", "endpgm">>), Straight, 1, FALSE),
   Setup(pair, 1, Plain(<<"barrier", "branch", "endpgm">>), All(<<1, 3>>), 1, FALSE),
   Setup(pair, 1, Plain(<<"smem", "waitcnt", "endpgm">>), Straight, 1, FALSE),
   Setup(pair, 1, Plain(<<"branch", "salu", "valu", "endpgm">>), Apart(<<3>>, <<4>>), 0, FALSE)}

\* Waits for some of the accesses, also in a loop.
WaitSetups ==
  {Setup(single, 1, <<Do("flat"), Do("flat"), Wait(1, 9), Do("endpgm")>>, Straight, 1, FALSE),
   Setup(single, 1, <<Do("flat"), Do("smem"), Wait(0, 1), Do("endpgm")>>, Straight, 1, FALSE),
   Setup(single, 1, <<Do("flat"), Wait(1, 1), Do("branch"), Do("endpgm")>>, All(<<1, 4>>), 1, FALSE)}

\* A branch to every instruction of the program, the second time to its end,
\* with as many lines in the buffer as the code has.
BranchSetups ==
  {Setup(single, 4, Plain(<<"valu", "branch", "valu", "valu", "valu", "valu", "endpgm">>), All(<<to, 7>>), 1, FALSE)
     : to \in 1..7}

SampledSetups ==
  {Setup(pair, 1, Plain(<<"salu", "lds", "endpgm">>), Straight, 0, TRUE),
   Setup(pair, 1, Plain(<<"flat", "barrier", "endpgm">>), Straight, 0, TRUE),
   Setup(pair, 1, Plain(<<"barrier", "endpgm">>), Straight, 1, TRUE)}

MixedSetups == PairSetups \cup WaitSetups \cup BranchSetups \cup SampledSetups
=============================================================================
