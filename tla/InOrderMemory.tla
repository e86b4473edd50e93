--------------------------- MODULE InOrderMemory ---------------------------
(***************************************************************************)
(* What a reorder buffer promises to the unit above it: the requests it    *)
(* has accepted are answered once each, in the order they were accepted,   *)
(* each with its own data; a flush drops every accepted request that was   *)
(* not answered yet, and nothing is accepted or answered until a restart.  *)
(***************************************************************************)
EXTENDS Naturals, Sequences

CONSTANTS
  Req,          \* requests, and the data that answers each of them
  BufferSize    \* accepted requests that are not answered

VARIABLES
  pending,      \* accepted requests, oldest first
  answers,      \* responses the unit above has not taken yet
  paused

vars == <<pending, answers, paused>>

Init ==
  /\ pending = <<>>
  /\ answers = <<>>
  /\ paused = FALSE

Accept(r) ==
  /\ ~ paused
  /\ Len(pending) < BufferSize
  /\ pending' = Append(pending, r)
  /\ UNCHANGED <<answers, paused>>

Answer ==
  /\ ~ paused
  /\ pending # <<>>
  /\ answers' = Append(answers, [rspTo |-> Head(pending),
                                 data  |-> Head(pending)])
  /\ pending' = Tail(pending)
  /\ UNCHANGED paused

Take ==
  /\ answers # <<>>
  /\ answers' = Tail(answers)
  /\ UNCHANGED <<pending, paused>>

Flush ==
  /\ pending' = <<>>
  /\ paused' = TRUE
  /\ UNCHANGED answers

Restart ==
  /\ pending' = <<>>
  /\ paused' = FALSE
  /\ UNCHANGED answers

Next ==
  \/ \E r \in Req : Accept(r)
  \/ Answer
  \/ Take
  \/ Flush
  \/ Restart

Spec == Init /\ [][Next]_vars
=============================================================================
