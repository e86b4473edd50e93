------------------------ MODULE CommandQueuesProofs ------------------------
(***************************************************************************)
(* Proofs about CommandQueues, for every set of threads, queues and GPUs,  *)
(* every number of commands and every capacity of a GPU: types, responses  *)
(* that find their command, an engine that stays while work is out, and    *)
(* drains that return only when their commands are done.                   *)
(***************************************************************************)
EXTENDS CommandQueues, SequenceTheorems, FiniteSetTheorems, TLAPS

-----------------------------------------------------------------------------
(* Sequences and the sets of their elements.                               *)

\* The elements of a sequence are in its base set.
LEMMA ElementsOf ==
  ASSUME NEW S, NEW s \in Seq(S)
  PROVE  /\ ToSet(s) \subseteq S
         /\ \A i \in DOMAIN s : s[i] \in S /\ s[i] \in ToSet(s)
         /\ s # <<>> => Head(s) \in ToSet(s)
         /\ s = <<>> => ToSet(s) = {}
<1>1. DOMAIN s = 1..Len(s) /\ Len(s) \in Nat
  BY LenProperties
<1>2. \A i \in DOMAIN s : s[i] \in S
  BY <1>1, ElementOfSeq
<1>3. s # <<>> => Head(s) = s[1] /\ 1 \in DOMAIN s
  BY <1>1, EmptySeq
<1>4. s = <<>> => DOMAIN s = {}
  OBVIOUS
<1> QED  BY <1>2, <1>3, <1>4 DEF ToSet

\* A sequence with one more element.
LEMMA Appended ==
  ASSUME NEW S, NEW s \in Seq(S), NEW e \in S
  PROVE  /\ Append(s, e) \in Seq(S)
         /\ ToSet(Append(s, e)) = ToSet(s) \cup {e}
         /\ Append(s, e) # <<>>
         /\ IsInjective(s) /\ e \notin ToSet(s) => IsInjective(Append(s, e))
         /\ s # <<>> => Head(Append(s, e)) = Head(s)
<1> DEFINE t == Append(s, e)
           n == Len(s)
<1>1. n \in Nat /\ DOMAIN s = 1..n
  BY LenProperties
<1>2. /\ t \in Seq(S) /\ t # <<>> /\ Len(t) = n + 1
      /\ \A i \in 1..n : t[i] = s[i]
      /\ t[n + 1] = e
  BY AppendProperties
<1>3. DOMAIN t = 1..(n + 1)
  BY <1>2, LenProperties
<1>4. s # <<>> => Head(t) = t[1] /\ Head(s) = s[1] /\ 1 \in 1..n
  BY <1>1, <1>2, EmptySeq
<1> HIDE DEF t, n
<1>5. DOMAIN t = DOMAIN s \cup {n + 1} /\ n + 1 \notin DOMAIN s
  BY <1>1, <1>3
<1>6. ToSet(t) = ToSet(s) \cup {e}
  BY <1>1, <1>2, <1>5 DEF ToSet
<1>7. IsInjective(s) /\ e \notin ToSet(s) => IsInjective(t)
  BY <1>1, <1>2, <1>5 DEF ToSet, IsInjective
<1> QED  BY <1>1, <1>2, <1>4, <1>6, <1>7 DEF t

\* A sequence without its first element.
LEMMA TailOf ==
  ASSUME NEW S, NEW s \in Seq(S), s # <<>>
  PROVE  /\ Head(s) \in S
         /\ Tail(s) \in Seq(S)
         /\ ToSet(Tail(s)) \subseteq ToSet(s)
         /\ ToSet(s) = ToSet(Tail(s)) \cup {Head(s)}
         /\ IsInjective(s) => /\ IsInjective(Tail(s))
                              /\ Head(s) \notin ToSet(Tail(s))
<1> DEFINE t == Tail(s)
           n == Len(s)
<1>1. n \in Nat \ {0} /\ DOMAIN s = 1..n
  BY EmptySeq, LenProperties
<1>2. /\ Head(s) \in S /\ Head(s) = s[1]
      /\ t \in Seq(S) /\ Len(t) = n - 1
      /\ \A i \in 1..(n - 1) : t[i] = s[i + 1]
  BY HeadTailProperties
<1>3. DOMAIN t = 1..(n - 1)
  BY <1>2, LenProperties
<1> HIDE DEF t, n
<1>4. \A i \in DOMAIN t : i + 1 \in DOMAIN s /\ i + 1 # 1 /\ t[i] = s[i + 1]
  BY <1>1, <1>2, <1>3
<1>5. \A j \in DOMAIN s : j = 1 \/ (j - 1 \in DOMAIN t /\ t[j - 1] = s[j])
  <2> SUFFICES ASSUME NEW j \in DOMAIN s, j # 1
               PROVE  j - 1 \in DOMAIN t /\ t[j - 1] = s[j]
    OBVIOUS
  <2>1. j - 1 \in 1..(n - 1) /\ (j - 1) + 1 = j
    BY <1>1
  <2> QED  BY <2>1, <1>2, <1>3
<1>6. 1 \in DOMAIN s
  BY <1>1
<1>7. ToSet(t) \subseteq ToSet(s)
  BY <1>4 DEF ToSet
<1>8. ToSet(s) = ToSet(t) \cup {Head(s)}
  <2>1. \A x \in ToSet(s) : x \in ToSet(t) \/ x = Head(s)
    BY <1>2, <1>5 DEF ToSet
  <2>2. Head(s) \in ToSet(s)
    BY <1>2, <1>6 DEF ToSet
  <2> QED  BY <2>1, <2>2, <1>7
<1>9. IsInjective(s) => IsInjective(t)
  <2> SUFFICES ASSUME IsInjective(s), NEW i \in DOMAIN t, NEW j \in DOMAIN t,
                      t[i] = t[j]
               PROVE  i = j
    BY DEF IsInjective
  <2>1. i + 1 = j + 1
    BY <1>4 DEF IsInjective
  <2>2. i \in Int /\ j \in Int
    BY <1>1, <1>3
  <2> QED  BY <2>1, <2>2
<1>10. IsInjective(s) => Head(s) \notin ToSet(t)
  BY <1>2, <1>4, <1>6 DEF ToSet, IsInjective
<1> QED  BY <1>2, <1>7, <1>8, <1>9, <1>10 DEF t

\* Two sequences with nothing in common, one after the other.
LEMMA Concatenated ==
  ASSUME NEW S, NEW s \in Seq(S), NEW t \in Seq(S)
  PROVE  /\ s \o t \in Seq(S)
         /\ ToSet(s \o t) = ToSet(s) \cup ToSet(t)
         /\ s # <<>> => s \o t # <<>> /\ Head(s \o t) = Head(s)
         /\ IsInjective(s) /\ IsInjective(t) /\ ToSet(s) \cap ToSet(t) = {}
              => IsInjective(s \o t)
<1> DEFINE u == s \o t
           m == Len(s)
           n == Len(t)
<1>1. /\ m \in Nat /\ DOMAIN s = 1..m
      /\ n \in Nat /\ DOMAIN t = 1..n
  BY LenProperties
<1>2. /\ u \in Seq(S) /\ Len(u) = m + n
      /\ \A i \in 1..(m + n) : u[i] = IF i <= m THEN s[i] ELSE t[i - m]
  BY ConcatProperties
<1>3. DOMAIN u = 1..(m + n)
  BY <1>2, LenProperties
<1>4. s # <<>> => /\ m # 0
                  /\ Head(s) = s[1]
                  /\ u # <<>> => Head(u) = u[1]
  BY <1>1, <1>2, EmptySeq
<1>5. s # <<>> => u # <<>>
  BY ConcatEqualIffEmpty, ConcatSimplifications
<1> HIDE DEF u, m, n
<1>6. \A i \in DOMAIN u : \/ i \in DOMAIN s /\ u[i] = s[i]
                          \/ i - m \in DOMAIN t /\ u[i] = t[i - m] /\ i > m
  BY <1>1, <1>2, <1>3
<1>7. \A i \in DOMAIN s : i \in DOMAIN u /\ u[i] = s[i]
  BY <1>1, <1>2, <1>3
<1>8. \A i \in DOMAIN t : i + m \in DOMAIN u /\ u[i + m] = t[i]
  <2> TAKE i \in DOMAIN t
  <2>1. i + m \in 1..(m + n) /\ ~ (i + m <= m) /\ (i + m) - m = i
    BY <1>1
  <2> QED  BY <2>1, <1>2, <1>3
<1>9. ToSet(u) = ToSet(s) \cup ToSet(t)
  <2>1. ToSet(u) \subseteq ToSet(s) \cup ToSet(t)
    BY <1>6 DEF ToSet
  <2>2. ToSet(s) \subseteq ToSet(u)
    BY <1>7 DEF ToSet
  <2>3. ToSet(t) \subseteq ToSet(u)
    BY <1>8 DEF ToSet
  <2> QED  BY <2>1, <2>2, <2>3
<1>10. IsInjective(s) /\ IsInjective(t) /\ ToSet(s) \cap ToSet(t) = {}
         => IsInjective(u)
  <2> SUFFICES ASSUME IsInjective(s), IsInjective(t),
                      ToSet(s) \cap ToSet(t) = {},
                      NEW i \in DOMAIN u, NEW j \in DOMAIN u, u[i] = u[j]
               PROVE  i = j
    BY DEF IsInjective
  <2>1. \A k \in DOMAIN s, l \in DOMAIN t : s[k] # t[l]
    BY DEF ToSet
  <2>2. CASE i \in DOMAIN s /\ u[i] = s[i] /\ j \in DOMAIN s /\ u[j] = s[j]
    BY <2>2 DEF IsInjective
  <2>3. CASE /\ i - m \in DOMAIN t /\ u[i] = t[i - m]
             /\ j - m \in DOMAIN t /\ u[j] = t[j - m]
    <3>1. i - m = j - m
      BY <2>3 DEF IsInjective
    <3> QED  BY <3>1, <1>1, <1>3
  <2> QED  BY <2>1, <2>2, <2>3, <1>6
<1>11. s # <<>> => Head(u) = Head(s)
  <2>1. s # <<>> => 1 \in DOMAIN s
    BY <1>1, <1>4
  <2> QED  BY <2>1, <1>4, <1>5, <1>7
<1> QED  BY <1>2, <1>5, <1>9, <1>10, <1>11 DEF u

\* A sequence without its i-th element.
LEMMA Removed ==
  ASSUME NEW S, NEW s \in Seq(S), NEW i \in DOMAIN s, IsInjective(s)
  PROVE  /\ RemoveAt(s, i) \in Seq(S)
         /\ ToSet(RemoveAt(s, i)) = ToSet(s) \ {s[i]}
         /\ IsInjective(RemoveAt(s, i))
<1> DEFINE n == Len(s)
           a == SubSeq(s, 1, i - 1)
           b == SubSeq(s, i + 1, n)
<1>1. /\ n \in Nat /\ DOMAIN s = 1..n /\ i \in 1..n
      /\ \A k \in 1..n : s[k] \in S
  BY LenProperties, ElementOfSeq
<1>2. /\ a \in Seq(S)
      /\ Len(a) = i - 1
      /\ \A k \in 1..(i - 1) : a[k] = s[k]
  <2>1. \A k \in 1..(i - 1) : s[k] \in S
    BY <1>1
  <2>2. /\ a \in Seq(S)
        /\ Len(a) = IF 1 <= i - 1 THEN (i - 1) - 1 + 1 ELSE 0
        /\ \A k \in 1..((i - 1) - 1 + 1) : a[k] = s[1 + k - 1]
    BY <1>1, <2>1, SubSeqProperties
  <2>3. Len(a) = i - 1 /\ (i - 1) - 1 + 1 = i - 1
    BY <1>1, <2>2
  <2>4. \A k \in 1..(i - 1) : 1 + k - 1 = k
    OBVIOUS
  <2> QED  BY <2>2, <2>3, <2>4
<1>3. /\ b \in Seq(S)
      /\ Len(b) = n - i
      /\ \A k \in 1..(n - i) : b[k] = s[k + i]
  <2>1. \A k \in (i + 1)..n : s[k] \in S
    BY <1>1
  <2>2. /\ b \in Seq(S)
        /\ Len(b) = IF i + 1 <= n THEN n - (i + 1) + 1 ELSE 0
        /\ \A k \in 1..(n - (i + 1) + 1) : b[k] = s[(i + 1) + k - 1]
    BY <1>1, <2>1, SubSeqProperties
  <2>3. Len(b) = n - i /\ n - (i + 1) + 1 = n - i
    BY <1>1, <2>2
  <2>4. \A k \in 1..(n - i) : (i + 1) + k - 1 = k + i
    BY <1>1
  <2> QED  BY <2>2, <2>3, <2>4
<1>4. DOMAIN a = 1..(i - 1) /\ DOMAIN b = 1..(n - i)
  BY <1>2, <1>3, LenProperties
<1>5. RemoveAt(s, i) = a \o b
  BY DEF RemoveAt
<1> HIDE DEF a, b, n
<1>6. \A k \in DOMAIN a : k \in DOMAIN s /\ k < i /\ a[k] = s[k]
  BY <1>1, <1>2, <1>4
<1>7. \A k \in DOMAIN b : k + i \in DOMAIN s /\ k + i > i /\ b[k] = s[k + i]
  BY <1>1, <1>3, <1>4
<1>8. \A k \in DOMAIN s : \/ k = i
                          \/ k \in DOMAIN a
                          \/ k - i \in DOMAIN b /\ (k - i) + i = k
  BY <1>1, <1>4
<1>9. IsInjective(a)
  BY <1>6 DEF IsInjective
<1>10. IsInjective(b)
  <2> SUFFICES ASSUME NEW k \in DOMAIN b, NEW l \in DOMAIN b, b[k] = b[l]
               PROVE  k = l
    BY DEF IsInjective
  <2>1. k + i = l + i
    BY <1>7 DEF IsInjective
  <2> QED  BY <2>1, <1>1, <1>4
<1>11. \A k \in DOMAIN a, l \in DOMAIN b : a[k] # b[l]
  <2> TAKE k \in DOMAIN a, l \in DOMAIN b
  <2>1. k # l + i
    BY <1>1, <1>4
  <2> QED  BY <2>1, <1>6, <1>7 DEF IsInjective
<1>12. ToSet(a) \cap ToSet(b) = {}
  BY <1>11 DEF ToSet
<1>13. ToSet(a) \cup ToSet(b) = ToSet(s) \ {s[i]}
  <2>1. \A x \in ToSet(a) : x \in ToSet(s) /\ x # s[i]
    <3> SUFFICES ASSUME NEW k \in DOMAIN a
                 PROVE  a[k] \in ToSet(s) /\ a[k] # s[i]
      BY DEF ToSet
    <3>1. k \in DOMAIN s /\ k # i /\ a[k] = s[k]
      BY <1>1, <1>4, <1>6
    <3> QED  BY <3>1 DEF ToSet, IsInjective
  <2>2. \A x \in ToSet(b) : x \in ToSet(s) /\ x # s[i]
    <3> SUFFICES ASSUME NEW k \in DOMAIN b
                 PROVE  b[k] \in ToSet(s) /\ b[k] # s[i]
      BY DEF ToSet
    <3>1. k + i \in DOMAIN s /\ k + i # i /\ b[k] = s[k + i]
      BY <1>1, <1>4, <1>7
    <3> QED  BY <3>1 DEF ToSet, IsInjective
  <2>3. \A x \in ToSet(s) : x = s[i] \/ x \in ToSet(a) \/ x \in ToSet(b)
    <3> SUFFICES ASSUME NEW k \in DOMAIN s, k # i
                 PROVE  s[k] \in ToSet(a) \/ s[k] \in ToSet(b)
      BY DEF ToSet
    <3>1. CASE k \in DOMAIN a
      BY <3>1, <1>6 DEF ToSet
    <3>2. CASE k - i \in DOMAIN b /\ (k - i) + i = k
      BY <3>2, <1>7 DEF ToSet
    <3> QED  BY <3>1, <3>2, <1>8
  <2> QED  BY <2>1, <2>2, <2>3
<1> QED
  BY <1>2, <1>3, <1>5, <1>9, <1>10, <1>12, <1>13, Concatenated

-----------------------------------------------------------------------------
(* The requests a command starts with.                                     *)

\* A set in some order, without repetition.
LEMMA Ordered ==
  ASSUME NEW S, NEW T \in SUBSET S, IsFiniteSet(T), NEW s \in SetToSeqs(T)
  PROVE  s \in Seq(S) /\ IsInjective(s)
<1>1. Cardinality(T) \in Nat
  BY FS_CardinalityType
<1>2. /\ s \in [1..Cardinality(T) -> T]
      /\ \A i, j \in 1..Cardinality(T) : i # j => s[i] # s[j]
  BY DEF SetToSeqs
<1>3. s \in Seq(S)
  <2>1. s \in [1..Cardinality(T) -> S]
    BY <1>2
  <2> QED  BY <2>1, <1>1, SeqDef
<1> QED  BY <1>2, <1>3 DEF IsInjective

\* A finite set can be put in some order.
LEMMA Orderable ==
  ASSUME NEW S, IsFiniteSet(S)
  PROVE  SetToSeq(S) \in Seq(S) /\ IsInjective(SetToSeq(S))
<1>1. Cardinality(S) \in Nat /\ ExistsBijection(1..Cardinality(S), S)
  BY FS_CardinalityType
<1>2. \E f \in [1..Cardinality(S) -> S] : IsInjective(f)
  BY <1>1 DEF ExistsBijection, Bijection, Injection, IsInjective
<1>3. /\ SetToSeq(S) \in [1..Cardinality(S) -> S]
      /\ IsInjective(SetToSeq(S))
  BY <1>2 DEF SetToSeq
<1> QED  BY <1>1, <1>3, SeqDef

\* The requests of one kind to the GPUs of s.
LEMMA RequestsTo ==
  ASSUME NEW q \in Queue, commands[q] \in Seq(Command), commands[q] # <<>>,
         NEW kind \in {"launch", "flush", "copy"},
         NEW s \in Seq(GPU), IsInjective(s)
  PROVE  LET rs == ReqsTo(q, kind, s)
         IN  /\ rs \in Seq(Request)
             /\ IsInjective(rs)
             /\ \A r \in ToSet(rs) : /\ r.queue = q
                                     /\ r.kind = kind
                                     /\ r.num = Head(commands[q]).num
<1> DEFINE rs == ReqsTo(q, kind, s)
<1>1. Head(commands[q]).num \in Nat
  <2>1. Head(commands[q]) \in Command
    BY TailOf
  <2> QED  BY <2>1 DEF Command
<1>2. DOMAIN s = 1..Len(s) /\ Len(s) \in Nat /\ \A i \in DOMAIN s : s[i] \in GPU
  BY LenProperties, ElementOfSeq
<1>3. /\ DOMAIN rs = DOMAIN s
      /\ \A i \in DOMAIN s :
           rs[i] = [queue |-> q, num |-> Head(commands[q]).num,
                    kind |-> kind, gpu |-> s[i]]
  BY DEF ReqsTo, ReqTo
<1>4. \A i \in DOMAIN s : rs[i] \in Request
  BY <1>1, <1>2, <1>3 DEF Request
<1>5. rs \in [1..Len(s) -> Request]
  BY <1>2, <1>4 DEF ReqsTo
<1>6. rs \in Seq(Request)
  BY <1>2, <1>5, SeqDef
<1> HIDE DEF rs
<1>7. IsInjective(rs)
  <2> SUFFICES ASSUME NEW i \in DOMAIN s, NEW j \in DOMAIN s, rs[i] = rs[j]
               PROVE  i = j
    BY <1>3 DEF IsInjective
  <2>1. rs[i].gpu = s[i] /\ rs[j].gpu = s[j]
    BY <1>3
  <2> QED  BY <2>1 DEF IsInjective
<1>8. \A r \in ToSet(rs) : /\ r.queue = q
                           /\ r.kind = kind
                           /\ r.num = Head(commands[q]).num
  BY <1>3 DEF ToSet
<1> QED  BY <1>6, <1>7, <1>8 DEF rs

\* The first command of q starts with these requests.
StartedWith(q, rs) ==
  /\ rs \in Seq(Request)
  /\ IsInjective(rs)
  /\ \A r \in ToSet(rs) : r.queue = q /\ r.num = Head(commands[q]).num
  /\ Start(q, rs)

\* A kernel starts with its launches.
LEMMA LaunchStarts ==
  ASSUME TypeOK, NEW q \in Queue, processLaunchKernelCommand(q)
  PROVE  \E rs : StartedWith(q, rs)
<1>1. PICK S \in SUBSET GPU \ {{}} : \E s \in SetToSeqs(S) :
        Start(q, ReqsTo(q, "launch", s))
  BY DEF processLaunchKernelCommand
<1>2. PICK s \in SetToSeqs(S) : Start(q, ReqsTo(q, "launch", s))
  BY <1>1
<1>3. s \in Seq(GPU) /\ IsInjective(s)
  BY Ordered, FS_Subset, GPUAssumption
<1>4. commands[q] \in Seq(Command) /\ commands[q] # <<>>
  BY DEF TypeOK, processLaunchKernelCommand, CanStart
<1> QED  BY <1>2, <1>3, <1>4, RequestsTo DEF StartedWith

\* A copy starts with flushes, if any, and then its copies.
LEMMA CopyStarts ==
  ASSUME TypeOK, NEW q \in Queue, processMemCopyCommand(q)
  PROVE  \E rs : StartedWith(q, rs)
<1>1. PICK flush \in BOOLEAN, S \in SUBSET GPU \ {{}} : \E s \in SetToSeqs(S) :
        Start(q, (IF flush THEN ReqsTo(q, "flush", SetToSeq(GPU)) ELSE <<>>)
                   \o ReqsTo(q, "copy", s))
  BY DEF processMemCopyCommand
<1>2. PICK s \in SetToSeqs(S) :
        Start(q, (IF flush THEN ReqsTo(q, "flush", SetToSeq(GPU)) ELSE <<>>)
                   \o ReqsTo(q, "copy", s))
  BY <1>1
<1> DEFINE fs == IF flush THEN ReqsTo(q, "flush", SetToSeq(GPU)) ELSE <<>>
           cs == ReqsTo(q, "copy", s)
<1>3. /\ s \in Seq(GPU) /\ IsInjective(s)
      /\ SetToSeq(GPU) \in Seq(GPU) /\ IsInjective(SetToSeq(GPU))
  BY Ordered, Orderable, FS_Subset, GPUAssumption
<1>4. commands[q] \in Seq(Command) /\ commands[q] # <<>>
  BY DEF TypeOK, processMemCopyCommand, CanStart
<1>5. /\ cs \in Seq(Request) /\ IsInjective(cs)
      /\ \A r \in ToSet(cs) : /\ r.queue = q /\ r.kind = "copy"
                              /\ r.num = Head(commands[q]).num
  BY <1>3, <1>4, RequestsTo
<1>6. /\ fs \in Seq(Request) /\ IsInjective(fs)
      /\ \A r \in ToSet(fs) : /\ r.queue = q /\ r.kind = "flush"
                              /\ r.num = Head(commands[q]).num
  <2>1. CASE flush
    BY <2>1, <1>3, <1>4, RequestsTo
  <2>2. CASE ~ flush
    BY <2>2, EmptySeq DEF IsInjective, ToSet
  <2> QED  BY <2>1, <2>2
<1>7. Start(q, fs \o cs)
  BY <1>2
<1> HIDE DEF fs, cs
<1>8. ToSet(fs) \cap ToSet(cs) = {}
  BY <1>5, <1>6
<1>9. /\ fs \o cs \in Seq(Request)
      /\ IsInjective(fs \o cs)
      /\ ToSet(fs \o cs) = ToSet(fs) \cup ToSet(cs)
  BY <1>5, <1>6, <1>8, Concatenated
<1> QED  BY <1>5, <1>6, <1>7, <1>9 DEF StartedWith

-----------------------------------------------------------------------------
(* Types.                                                                  *)

\* A wake-up leaves every thread at a known place.
LEMMA WokenType ==
  ASSUME TypeOK, NEW q
  PROVE  Woken(q) \in [App -> {"host", "notify", "signal", "check", "toWait", "wait"}]
  BY DEF TypeOK, Woken

\* Starting a command keeps the types.
LEMMA StartType ==
  ASSUME TypeOK, NEW q \in Queue, NEW rs, StartedWith(q, rs), l2Dirty' \in BOOLEAN,
         UNCHANGED <<appVars, commands, notifying, gpu, gpuPort, engVars>>
  PROVE  TypeOK'
<1>1. requestsToSend' \in Seq(Request)
  BY Concatenated DEF TypeOK, StartedWith, Start
<1>2. ToSet(rs) \subseteq Request
  BY ElementsOf DEF StartedWith
<1>3. reqs' \in [Queue -> SUBSET Request]
  BY <1>2 DEF TypeOK, StartedWith, Start
<1>4. IsRunning' \in [Queue -> BOOLEAN]
  BY DEF TypeOK, StartedWith, Start
<1> QED  BY <1>1, <1>3, <1>4 DEF TypeOK, appVars, engVars

\* The end of the first command keeps the types of the queue's variables.
LEMMA DequeueType ==
  ASSUME TypeOK, NEW q \in Queue, commands[q] # <<>>, Dequeue(q)
  PROVE  /\ commands' \in [Queue -> Seq(Command)]
         /\ IsRunning' \in [Queue -> BOOLEAN]
         /\ notifying' \in Queue \cup {None}
<1>1. Tail(commands[q]) \in Seq(Command)
  BY TailOf DEF TypeOK
<1> QED  BY <1>1 DEF TypeOK, Dequeue

\* A response, of a command that is first in its queue, keeps the types.
LEMMA ReturnType ==
  ASSUME TypeOK, NEW q \in Queue, gpuPort # <<>>, Return(q, Head(gpuPort)),
         commands[q] # <<>>,
         UNCHANGED <<appVars, l2Dirty, requestsToSend, gpu, engVars>>
  PROVE  TypeOK'
<1>1. gpuPort' \in Seq(Request)
  BY TailOf DEF TypeOK, Return
<1>2. reqs' \in [Queue -> SUBSET Request]
  BY DEF TypeOK, Return
<1>3. /\ commands' \in [Queue -> Seq(Command)]
      /\ IsRunning' \in [Queue -> BOOLEAN]
      /\ notifying' \in Queue \cup {None}
  <2>1. CASE reqs[q] = {Head(gpuPort)}
    BY <2>1, DequeueType DEF Return
  <2>2. CASE reqs[q] # {Head(gpuPort)}
    BY <2>2 DEF Return, TypeOK
  <2> QED  BY <2>1, <2>2
<1> QED  BY <1>1, <1>2, <1>3 DEF TypeOK, appVars, engVars

\* Types are kept by every step from a state of the invariant.
LEMMA TypeStep == IInv /\ [Next]_vars => TypeOK'
<1> SUFFICES ASSUME IInv, [Next]_vars PROVE TypeOK'
  OBVIOUS
<1> USE DEF IInv
<1>1. ASSUME NEW a \in App, Enqueue(a) PROVE TypeOK'
  <2> DEFINE q == QueueOf[a]
  <2>1. q \in Queue
    BY QueueOfAssumption
  <2>2. PICK k \in Kind :
          commands' = [commands EXCEPT
                         ![q] = Append(@, [num |-> enqueued[q] + 1, kind |-> k])]
    BY <1>1 DEF Enqueue
  <2>3. [num |-> enqueued[q] + 1, kind |-> k] \in Command
    BY <2>1 DEF TypeOK, Command
  <2>4. Append(commands[q], [num |-> enqueued[q] + 1, kind |-> k]) \in Seq(Command)
    BY <2>1, <2>3, Appended DEF TypeOK
  <2>5. commands' \in [Queue -> Seq(Command)]
    BY <2>1, <2>2, <2>4 DEF TypeOK
  <2>6. enqueued' \in [Queue -> Nat]
    BY <1>1, <2>1 DEF TypeOK, Enqueue
  <2> QED  BY <1>1, <2>5, <2>6 DEF TypeOK, Enqueue, gpuVars, engVars
<1>2. ASSUME NEW a \in App, EnqueueNotify(a) PROVE TypeOK'
  <2>1. pc' \in [App -> {"host", "notify", "signal", "check", "toWait", "wait"}]
    BY <1>2, WokenType DEF EnqueueNotify
  <2> QED  BY <1>2, <2>1 DEF TypeOK, EnqueueNotify, queueVars, gpuVars, engVars
<1>3. ASSUME NEW a \in App, Subscribe(a) PROVE TypeOK'
  BY <1>3, QueueOfAssumption DEF TypeOK, Subscribe, queueVars, gpuVars, engVars
<1>4. ASSUME NEW a \in App, Signal(a) PROVE TypeOK'
  BY <1>4 DEF TypeOK, Signal, queueVars, gpuVars
<1>5. ASSUME NEW a \in App, Check(a) PROVE TypeOK'
  <2>1. QueueOf[a] \in Queue
    BY QueueOfAssumption
  <2>2. /\ pc' \in [App -> {"host", "notify", "signal", "check", "toWait", "wait"}]
        /\ listeners' \in [Queue -> SUBSET App]
    <3>1. CASE Len(commands[QueueOf[a]]) = 0
      <4>1. /\ pc' = [pc EXCEPT ![a] = "host"]
            /\ listeners' = [listeners EXCEPT ![QueueOf[a]] = @ \ {a}]
        BY <3>1, <1>5 DEF Check
      <4> QED  BY <4>1, <2>1 DEF TypeOK
    <3>2. CASE Len(commands[QueueOf[a]]) # 0
      BY <3>2, <1>5 DEF TypeOK, Check
    <3> QED  BY <3>1, <3>2
  <2> QED  BY <1>5, <2>2 DEF TypeOK, Check, queueVars, gpuVars, engVars
<1>6. ASSUME NEW a \in App, Wait(a) PROVE TypeOK'
  BY <1>6 DEF TypeOK, Wait, queueVars, gpuVars, engVars
<1>7. CASE AsyncStep
  BY <1>7 DEF TypeOK, AsyncStep, AsyncTick, AsyncFlag, appVars, queueVars, gpuVars
<1>8. CASE EngineReturns \/ RunEngineEnds
  BY <1>8 DEF TypeOK, EngineReturns, RunEngineEnds, appVars, queueVars, gpuVars
<1>9. CASE sendToGPUs
  <2> DEFINE req == Head(requestsToSend)
  <2>1. req \in Request /\ Tail(requestsToSend) \in Seq(Request)
    BY <1>9, TailOf DEF TypeOK, sendToGPUs, CanSendToGPUs
  <2>2. req.gpu \in GPU
    BY <2>1 DEF Request
  <2>3. Append(gpu[req.gpu], req) \in Seq(Request)
    BY <2>1, <2>2, Appended DEF TypeOK
  <2>4. gpu' \in [GPU -> Seq(Request)]
    BY <1>9, <2>3 DEF TypeOK, sendToGPUs
  <2> QED  BY <1>9, <2>1, <2>4 DEF TypeOK, sendToGPUs, appVars, queueVars, engVars
<1>10. CASE DequeueNotify
  <2>1. pc' \in [App -> {"host", "notify", "signal", "check", "toWait", "wait"}]
    BY <1>10, WokenType DEF DequeueNotify
  <2> QED  BY <1>10, <2>1 DEF TypeOK, DequeueNotify, gpuVars, engVars
<1>11. CASE TickIdle
  BY <1>11 DEF TypeOK, TickIdle, appVars, queueVars, gpuVars
<1>12. ASSUME NEW q \in Queue,
              processLaunchKernelReturn(q) \/ processMemCopyReturn(q)
       PROVE TypeOK'
  <2>1. Head(gpuPort) \in reqs[q] /\ gpuPort # <<>> /\ Return(q, Head(gpuPort))
    BY <1>12 DEF processLaunchKernelReturn, processMemCopyReturn
  <2>2. commands[q] # <<>>
    BY <2>1 DEF ExpectedInv
  <2> QED
    BY <1>12, <2>1, <2>2, ReturnType
    DEF processLaunchKernelReturn, processMemCopyReturn
<1>13. ASSUME NEW q \in Queue, processFlushReturn(q) PROVE TypeOK'
  <2>1. gpuPort' \in Seq(Request)
    BY <1>13, TailOf DEF TypeOK, processFlushReturn
  <2>2. reqs' \in [Queue -> SUBSET Request]
    BY <1>13 DEF TypeOK, processFlushReturn
  <2> QED  BY <1>13, <2>1, <2>2 DEF TypeOK, processFlushReturn, appVars, engVars
<1>14. ASSUME NEW q \in Queue, processLaunchKernelCommand(q) PROVE TypeOK'
  <2>1. PICK rs : StartedWith(q, rs)
    BY <1>14, LaunchStarts
  <2> QED  BY <1>14, <2>1, StartType DEF processLaunchKernelCommand
<1>15. ASSUME NEW q \in Queue, processMemCopyCommand(q) PROVE TypeOK'
  <2>1. PICK rs : StartedWith(q, rs)
    BY <1>15, CopyStarts
  <2> QED  BY <1>15, <2>1, StartType DEF processMemCopyCommand, TypeOK
<1>16. ASSUME NEW q \in Queue, processNoopCommand(q) PROVE TypeOK'
  <2>1. /\ commands' \in [Queue -> Seq(Command)]
        /\ IsRunning' \in [Queue -> BOOLEAN]
        /\ notifying' \in Queue \cup {None}
    BY <1>16, DequeueType DEF processNoopCommand, CanStart
  <2> QED  BY <1>16, <2>1 DEF TypeOK, processNoopCommand, appVars, gpuVars, engVars
<1>17. ASSUME NEW g \in GPU, GPUReply(g) PROVE TypeOK'
  <2>1. PICK i \in DOMAIN gpu[g] :
          /\ gpuPort' = Append(gpuPort, gpu[g][i])
          /\ gpu' = [gpu EXCEPT ![g] = RemoveAt(@, i)]
    BY <1>17 DEF GPUReply
  <2>2. gpu[g] \in Seq(Request) /\ IsInjective(gpu[g])
    BY DEF TypeOK, PlacesInv
  <2>3. gpu[g][i] \in Request /\ RemoveAt(gpu[g], i) \in Seq(Request)
    BY <2>2, ElementsOf, Removed
  <2>4. gpuPort' \in Seq(Request)
    BY <2>1, <2>3, Appended DEF TypeOK
  <2>5. gpu' \in [GPU -> Seq(Request)]
    BY <2>1, <2>3 DEF TypeOK
  <2> QED  BY <1>17, <2>4, <2>5 DEF TypeOK, GPUReply, appVars, queueVars
<1>18. CASE UNCHANGED vars
  BY <1>18 DEF TypeOK, vars, appVars, queueVars, gpuVars, engVars
<1> QED
  BY <1>1, <1>2, <1>3, <1>4, <1>5, <1>6, <1>7, <1>8, <1>9, <1>10, <1>11, <1>12,
     <1>13, <1>14, <1>15, <1>16, <1>17, <1>18
  DEF Next, AppStep, EngineStep, TickStep

-----------------------------------------------------------------------------
(* The inductive invariant.                                                *)

\* The invariant holds initially.
LEMMA InitInv == Init => IInv
<1> SUFFICES ASSUME Init PROVE IInv
  OBVIOUS
<1>1. TypeOK
  BY EmptySeq DEF Init, TypeOK
<1>2. /\ ToSet(requestsToSend) = {} /\ ToSet(gpuPort) = {}
      /\ \A g \in GPU : ToSet(gpu[g]) = {}
  BY DEF Init, ToSet
<1>3. PlacesInv
  BY <1>2 DEF Init, PlacesInv, IsInjective
<1>4. ExpectedInv
  BY <1>2 DEF Init, ExpectedInv, Outstanding
<1>5. TickInv
  BY DEF Init, TickInv
<1> QED  BY <1>1, <1>3, <1>4, <1>5 DEF IInv

\* Where a request can be.
LEMMA OutstandingIs ==
  \A r : r \in Outstanding <=> \/ r \in ToSet(requestsToSend)
                               \/ r \in ToSet(gpuPort)
                               \/ \E g \in GPU : r \in ToSet(gpu[g])
  BY DEF Outstanding

\* A step that moves no request in or out, and leaves the queues that expect
\* one alone, keeps the requests where they are expected.
LEMMA ExpectedKept ==
  ASSUME IInv, Outstanding' = Outstanding, reqs' = reqs,
         \A q \in Queue : reqs[q] # {} =>
           /\ IsRunning'[q]
           /\ commands'[q] # <<>>
           /\ Head(commands'[q]).num = Head(commands[q]).num
  PROVE  ExpectedInv'
  BY DEF IInv, ExpectedInv

\* A step that leaves the requests where they are.
LEMMA Framed ==
  ASSUME IInv, TypeOK', TickInv',
         UNCHANGED <<requestsToSend, gpu, gpuPort, reqs>>,
         \A q \in Queue : reqs[q] # {} =>
           /\ IsRunning'[q]
           /\ commands'[q] # <<>>
           /\ Head(commands'[q]).num = Head(commands[q]).num
  PROVE  IInv'
<1>1. PlacesInv'
  BY DEF IInv, PlacesInv
<1>2. Outstanding' = Outstanding
  BY DEF Outstanding
<1>3. ExpectedInv'
  BY <1>2, ExpectedKept
<1> QED  BY <1>1, <1>3 DEF IInv

\* A step that leaves the requests, the running commands and the event alone.
LEMMA Still ==
  ASSUME IInv, TypeOK',
         UNCHANGED <<requestsToSend, gpu, gpuPort, reqs>>,
         \A q \in Queue : reqs[q] # {} =>
           /\ IsRunning'[q]
           /\ commands'[q] # <<>>
           /\ Head(commands'[q]).num = Head(commands[q]).num,
         tick' \/ tick' = tick,
         engine = "running" => engine' = "running"
  PROVE  IInv'
<1>1. TickInv'
  BY DEF IInv, TickInv
<1> QED  BY <1>1, Framed

\* The queues keep their first commands when their variables are unchanged.
LEMMA SameQueues ==
  ASSUME IInv, UNCHANGED <<IsRunning, commands>>
  PROVE  \A q \in Queue : reqs[q] # {} =>
           /\ IsRunning'[q]
           /\ commands'[q] # <<>>
           /\ Head(commands'[q]).num = Head(commands[q]).num
  BY DEF IInv, ExpectedInv

\* A new command goes behind the first one.
LEMMA EnqueueInv ==
  ASSUME IInv, TypeOK', NEW a \in App, Enqueue(a)
  PROVE  IInv'
<1> DEFINE q == QueueOf[a]
<1>1. q \in Queue
  BY QueueOfAssumption
<1>2. PICK k \in Kind :
        commands' = [commands EXCEPT
                       ![q] = Append(@, [num |-> enqueued[q] + 1, kind |-> k])]
  BY DEF Enqueue
<1>3. [num |-> enqueued[q] + 1, kind |-> k] \in Command
  <2>1. enqueued[q] \in Nat
    BY <1>1 DEF IInv, TypeOK
  <2> QED  BY <2>1 DEF Command
<1>4. commands[q] \in Seq(Command)
  BY <1>1 DEF IInv, TypeOK
<1>5. commands[q] # <<>> =>
        /\ commands'[q] # <<>>
        /\ Head(commands'[q]) = Head(commands[q])
  <2>1. commands'[q] = Append(commands[q], [num |-> enqueued[q] + 1, kind |-> k])
    BY <1>1, <1>2 DEF IInv, TypeOK
  <2> QED  BY <2>1, <1>3, <1>4, Appended
<1>6. \A p \in Queue : p # q => commands'[p] = commands[p]
  BY <1>2 DEF IInv, TypeOK
<1> HIDE DEF q
<1>7. \A p \in Queue : reqs[p] # {} =>
        /\ IsRunning'[p]
        /\ commands'[p] # <<>>
        /\ Head(commands'[p]).num = Head(commands[p]).num
  BY <1>5, <1>6 DEF IInv, ExpectedInv, Enqueue
<1> QED  BY <1>7, Still DEF Enqueue, gpuVars, engVars

\* A request goes from the driver to its GPU.
LEMMA SendInv ==
  ASSUME IInv, TypeOK', sendToGPUs
  PROVE  IInv'
<1> DEFINE req == Head(requestsToSend)
           g == req.gpu
<1>1. /\ requestsToSend \in Seq(Request) /\ requestsToSend # <<>>
      /\ gpu \in [GPU -> Seq(Request)]
      /\ requestsToSend' = Tail(requestsToSend)
      /\ gpu' = [gpu EXCEPT ![g] = Append(@, req)]
      /\ UNCHANGED <<gpuPort, reqs, commands, IsRunning, tick, engine>>
      /\ tick
  BY DEF IInv, TypeOK, sendToGPUs, CanSendToGPUs, Ticking, appVars, queueVars, engVars
<1>2. /\ req \in Request
      /\ ToSet(requestsToSend) = ToSet(requestsToSend') \cup {req}
      /\ req \notin ToSet(requestsToSend')
      /\ IsInjective(requestsToSend')
  BY <1>1, TailOf DEF IInv, PlacesInv
<1>3. g \in GPU
  BY <1>2 DEF Request
<1>4. req \notin ToSet(gpu[g]) /\ req \notin ToSet(gpuPort)
  BY <1>2, <1>3 DEF IInv, PlacesInv
<1>5. /\ gpu'[g] = Append(gpu[g], req)
      /\ \A h \in GPU : h # g => gpu'[h] = gpu[h]
  BY <1>1, <1>3
<1>6. gpu[g] \in Seq(Request) /\ IsInjective(gpu[g])
  BY <1>1, <1>3 DEF IInv, PlacesInv
<1>7. /\ ToSet(gpu'[g]) = ToSet(gpu[g]) \cup {req}
      /\ IsInjective(gpu'[g])
  BY <1>2, <1>4, <1>5, <1>6, Appended
<1> HIDE DEF req
<1>8. PlacesInv'
  <2>1. IsInjective(requestsToSend') /\ IsInjective(gpuPort')
    BY <1>1, <1>2 DEF IInv, PlacesInv
  <2>2. ToSet(requestsToSend') \cap ToSet(gpuPort') = {}
    BY <1>1, <1>2 DEF IInv, PlacesInv
  <2>3. ASSUME NEW h \in GPU
        PROVE  /\ IsInjective(gpu'[h])
               /\ \A r \in ToSet(gpu'[h]) : r.gpu = h
               /\ ToSet(gpu'[h]) \cap (ToSet(requestsToSend') \cup ToSet(gpuPort')) = {}
    <3>1. CASE h = g
      BY <3>1, <1>1, <1>2, <1>3, <1>4, <1>7 DEF IInv, PlacesInv
    <3>2. CASE h # g
      BY <3>2, <1>1, <1>2, <1>5 DEF IInv, PlacesInv
    <3> QED  BY <3>1, <3>2
  <2> QED  BY <2>1, <2>2, <2>3 DEF PlacesInv
<1>9. Outstanding' = Outstanding
  <2>1. \A r : r \in Outstanding' <=>
          \/ r \in ToSet(requestsToSend') \/ r \in ToSet(gpuPort')
          \/ \E h \in GPU : r \in ToSet(gpu'[h])
    BY DEF Outstanding
  <2>2. \A r : (\E h \in GPU : r \in ToSet(gpu'[h])) <=>
               (r = req \/ \E h \in GPU : r \in ToSet(gpu[h]))
    BY <1>3, <1>5, <1>7
  <2>3. \A r : r \in Outstanding' <=> r \in Outstanding
    BY <2>1, <2>2, <1>1, <1>2, OutstandingIs
  <2> QED  BY <2>3
<1>10. ExpectedInv'
  BY <1>1, <1>9, SameQueues, ExpectedKept
<1>11. TickInv'
  BY <1>1 DEF IInv, TickInv
<1> QED  BY <1>8, <1>10, <1>11 DEF IInv

\* A GPU answers a request.
LEMMA ReplyInv ==
  ASSUME IInv, TypeOK', NEW g \in GPU, GPUReply(g)
  PROVE  IInv'
<1>1. PICK i \in DOMAIN gpu[g] :
        /\ gpuPort' = Append(gpuPort, gpu[g][i])
        /\ gpu' = [gpu EXCEPT ![g] = RemoveAt(@, i)]
  BY DEF GPUReply
<1> DEFINE req == gpu[g][i]
<1>2. /\ gpu \in [GPU -> Seq(Request)]
      /\ gpuPort \in Seq(Request)
      /\ UNCHANGED <<requestsToSend, reqs, commands, IsRunning, engine>>
      /\ tick'
  BY DEF IInv, TypeOK, GPUReply, queueVars
<1>3. gpu[g] \in Seq(Request) /\ IsInjective(gpu[g])
  BY <1>2 DEF IInv, PlacesInv
<1>4. req \in Request /\ req \in ToSet(gpu[g])
  BY <1>3, ElementsOf
<1>5. /\ gpu'[g] = RemoveAt(gpu[g], i)
      /\ \A h \in GPU : h # g => gpu'[h] = gpu[h]
  BY <1>1, <1>2
<1>6. ToSet(gpu'[g]) = ToSet(gpu[g]) \ {req} /\ IsInjective(gpu'[g])
  BY <1>3, <1>5, Removed
<1>7. req \notin ToSet(gpuPort) /\ req \notin ToSet(requestsToSend) /\ req.gpu = g
  BY <1>4 DEF IInv, PlacesInv
<1>8. ToSet(gpuPort') = ToSet(gpuPort) \cup {req} /\ IsInjective(gpuPort')
  BY <1>1, <1>2, <1>4, <1>7, Appended DEF IInv, PlacesInv
<1> HIDE DEF req
<1>9. PlacesInv'
  <2>1. IsInjective(requestsToSend') /\ IsInjective(gpuPort')
    BY <1>2, <1>8 DEF IInv, PlacesInv
  <2>2. ToSet(requestsToSend') \cap ToSet(gpuPort') = {}
    BY <1>2, <1>7, <1>8 DEF IInv, PlacesInv
  <2>3. ASSUME NEW h \in GPU
        PROVE  /\ IsInjective(gpu'[h])
               /\ \A r \in ToSet(gpu'[h]) : r.gpu = h
               /\ ToSet(gpu'[h]) \cap (ToSet(requestsToSend') \cup ToSet(gpuPort')) = {}
    <3>1. CASE h = g
      BY <3>1, <1>2, <1>6, <1>8 DEF IInv, PlacesInv
    <3>2. CASE h # g
      <4>1. req \notin ToSet(gpu[h])
        BY <3>2, <1>7 DEF IInv, PlacesInv
      <4> QED  BY <4>1, <3>2, <1>2, <1>5, <1>8 DEF IInv, PlacesInv
    <3> QED  BY <3>1, <3>2
  <2> QED  BY <2>1, <2>2, <2>3 DEF PlacesInv
<1>10. Outstanding' = Outstanding
  <2>1. \A r : r \in Outstanding' <=>
          \/ r \in ToSet(requestsToSend') \/ r \in ToSet(gpuPort')
          \/ \E h \in GPU : r \in ToSet(gpu'[h])
    BY DEF Outstanding
  <2>2. \A r : (r = req \/ \E h \in GPU : r \in ToSet(gpu'[h])) <=>
               \E h \in GPU : r \in ToSet(gpu[h])
    BY <1>4, <1>5, <1>6
  <2>3. \A r : r \in Outstanding' <=> r \in Outstanding
    BY <2>1, <2>2, <1>2, <1>8, OutstandingIs
  <2> QED  BY <2>3
<1>11. ExpectedInv'
  BY <1>2, <1>10, SameQueues, ExpectedKept
<1>12. TickInv'
  BY <1>2 DEF IInv, TickInv
<1> QED  BY <1>9, <1>11, <1>12 DEF IInv

\* A response is taken from the port: its request is not expected any more,
\* and only a queue that expects nothing else gets a new first command.
LEMMA AnswerInv ==
  ASSUME IInv, TypeOK', NEW q \in Queue, Ticking, gpuPort # <<>>,
         Head(gpuPort) \in reqs[q],
         gpuPort' = Tail(gpuPort),
         reqs' = [reqs EXCEPT ![q] = @ \ {Head(gpuPort)}],
         UNCHANGED <<requestsToSend, gpu, engVars>>,
         \A p \in Queue : reqs'[p] # {} => /\ IsRunning'[p] = IsRunning[p]
                                           /\ commands'[p] = commands[p]
  PROVE  IInv'
<1> DEFINE req == Head(gpuPort)
<1>1. gpuPort \in Seq(Request) /\ reqs \in [Queue -> SUBSET Request]
  BY DEF IInv, TypeOK
<1>2. /\ ToSet(gpuPort) = ToSet(gpuPort') \cup {req}
      /\ req \notin ToSet(gpuPort')
      /\ IsInjective(gpuPort')
  BY <1>1, TailOf DEF IInv, PlacesInv
<1>3. /\ req \notin ToSet(requestsToSend)
      /\ \A g \in GPU : req \notin ToSet(gpu[g])
      /\ req.queue = q
  BY <1>2 DEF IInv, PlacesInv, ExpectedInv
<1>4. /\ reqs'[q] = reqs[q] \ {req}
      /\ \A p \in Queue : p # q => reqs'[p] = reqs[p]
  BY <1>1
<1> HIDE DEF req
<1>5. PlacesInv'
  BY <1>2 DEF IInv, PlacesInv
<1>6. \A r : r \in Outstanding' <=> r \in Outstanding /\ r # req
  <2>1. \A r : r \in Outstanding' <=>
          \/ r \in ToSet(requestsToSend) \/ r \in ToSet(gpuPort')
          \/ \E h \in GPU : r \in ToSet(gpu[h])
    BY DEF Outstanding
  <2> QED  BY <2>1, <1>2, <1>3, OutstandingIs
<1>7. ExpectedInv'
  <2>1. ASSUME NEW p \in Queue, NEW r \in reqs'[p]
        PROVE  /\ r \in Outstanding'
               /\ r.queue = p
               /\ IsRunning'[p]
               /\ commands'[p] # <<>>
               /\ Head(commands'[p]).num = r.num
    <3>1. r \in reqs[p] /\ r # req
      <4>1. CASE p = q
        BY <4>1, <1>4
      <4>2. CASE p # q
        <5>1. r \in reqs[p]
          BY <4>2, <1>4
        <5>2. r.queue = p
          BY <5>1 DEF IInv, ExpectedInv
        <5> QED  BY <5>1, <5>2, <4>2, <1>3
      <4> QED  BY <4>1, <4>2
    <3>2. IsRunning'[p] = IsRunning[p] /\ commands'[p] = commands[p]
      BY <2>1
    <3> QED  BY <3>1, <3>2, <1>6 DEF IInv, ExpectedInv
  <2>2. ASSUME NEW r \in Outstanding' PROVE r \in reqs'[r.queue]
    <3>1. r \in Outstanding /\ r # req
      BY <1>6
    <3>2. r \in reqs[r.queue]
      BY <3>1 DEF IInv, ExpectedInv
    <3>3. r.queue \in Queue
      <4>1. \A s \in Seq(Request) : ToSet(s) \subseteq Request
        BY ElementsOf
      <4>2. r \in Request
        BY <3>1, <4>1, OutstandingIs DEF IInv, TypeOK
      <4> QED  BY <4>2 DEF Request
    <3> QED  BY <3>1, <3>2, <3>3, <1>4
  <2> QED  BY <2>1, <2>2 DEF ExpectedInv
<1>8. TickInv'
  BY DEF Ticking, engVars, TickInv
<1> QED  BY <1>5, <1>7, <1>8 DEF IInv

\* The end of a kernel or of a copy.
LEMMA ReturnInv ==
  ASSUME IInv, TypeOK', NEW q \in Queue,
         processLaunchKernelReturn(q) \/ processMemCopyReturn(q)
  PROVE  IInv'
<1>1. /\ Ticking /\ gpuPort # <<>> /\ Head(gpuPort) \in reqs[q]
      /\ Return(q, Head(gpuPort))
      /\ UNCHANGED <<requestsToSend, gpu, engVars>>
  BY DEF processLaunchKernelReturn, processMemCopyReturn
<1>2. /\ gpuPort' = Tail(gpuPort)
      /\ reqs' = [reqs EXCEPT ![q] = @ \ {Head(gpuPort)}]
  BY <1>1 DEF Return
<1>3. \A p \in Queue : reqs'[p] # {} => /\ IsRunning'[p] = IsRunning[p]
                                        /\ commands'[p] = commands[p]
  <2>1. /\ IsRunning \in [Queue -> BOOLEAN]
        /\ commands \in [Queue -> Seq(Command)]
        /\ reqs \in [Queue -> SUBSET Request]
    BY DEF IInv, TypeOK
  <2>2. CASE reqs[q] = {Head(gpuPort)}
    <3>1. reqs'[q] = {}
      BY <2>2, <2>1, <1>2
    <3>2. /\ commands' = [commands EXCEPT ![q] = Tail(@)]
          /\ IsRunning' = [IsRunning EXCEPT ![q] = FALSE]
      BY <2>2, <1>1 DEF Return, Dequeue
    <3> QED  BY <3>1, <3>2, <2>1
  <2>3. CASE reqs[q] # {Head(gpuPort)}
    BY <2>3, <1>1 DEF Return
  <2> QED  BY <2>2, <2>3
<1> QED  BY <1>1, <1>2, <1>3, AnswerInv

\* The start of a command whose queue expects nothing yet.
LEMMA StartInv ==
  ASSUME IInv, TypeOK', NEW q \in Queue, NEW rs, StartedWith(q, rs), Ticking,
         commands[q] # <<>>, ~ IsRunning[q],
         UNCHANGED <<commands, gpu, gpuPort, engVars>>
  PROVE  IInv'
<1>1. /\ requestsToSend \in Seq(Request) /\ rs \in Seq(Request)
      /\ reqs \in [Queue -> SUBSET Request]
      /\ IsRunning \in [Queue -> BOOLEAN]
      /\ IsInjective(rs)
      /\ \A r \in ToSet(rs) : r.queue = q /\ r.num = Head(commands[q]).num
      /\ requestsToSend' = requestsToSend \o rs
  BY DEF IInv, TypeOK, StartedWith, Start
<1>2. reqs[q] = {} /\ \A r \in Outstanding : r.queue # q
  BY DEF IInv, ExpectedInv
<1>3. \A r \in ToSet(rs) : r \notin Outstanding
  BY <1>1, <1>2
<1>4. /\ ToSet(requestsToSend') = ToSet(requestsToSend) \cup ToSet(rs)
      /\ IsInjective(requestsToSend')
      /\ requestsToSend # <<>> => Head(requestsToSend') = Head(requestsToSend)
  <2>1. ToSet(requestsToSend) \cap ToSet(rs) = {}
    BY <1>3, OutstandingIs
  <2> QED  BY <2>1, <1>1, Concatenated DEF IInv, PlacesInv
<1>5. /\ reqs'[q] = ToSet(rs)
      /\ \A p \in Queue : p # q => reqs'[p] = reqs[p]
      /\ IsRunning'[q]
      /\ \A p \in Queue : p # q => IsRunning'[p] = IsRunning[p]
  BY <1>1, <1>2 DEF StartedWith, Start
<1>6. PlacesInv'
  BY <1>3, <1>4, OutstandingIs DEF IInv, PlacesInv
<1>7. \A r : r \in Outstanding' <=> r \in Outstanding \/ r \in ToSet(rs)
  <2>1. \A r : r \in Outstanding' <=>
          \/ r \in ToSet(requestsToSend') \/ r \in ToSet(gpuPort)
          \/ \E h \in GPU : r \in ToSet(gpu[h])
    BY DEF Outstanding
  <2> QED  BY <2>1, <1>4, OutstandingIs
<1>8. ExpectedInv'
  <2>1. ASSUME NEW p \in Queue, NEW r \in reqs'[p]
        PROVE  /\ r \in Outstanding'
               /\ r.queue = p
               /\ IsRunning'[p]
               /\ commands'[p] # <<>>
               /\ Head(commands'[p]).num = r.num
    <3>1. CASE p = q
      BY <3>1, <1>1, <1>5, <1>7
    <3>2. CASE p # q
      BY <3>2, <1>5, <1>7 DEF IInv, ExpectedInv
    <3> QED  BY <3>1, <3>2
  <2>2. ASSUME NEW r \in Outstanding' PROVE r \in reqs'[r.queue]
    <3>1. CASE r \in ToSet(rs)
      BY <3>1, <1>1, <1>5
    <3>2. CASE r \in Outstanding
      <4>1. r \in reqs[r.queue] /\ r.queue # q
        BY <3>2, <1>2 DEF IInv, ExpectedInv
      <4>2. \A s \in Seq(Request) : ToSet(s) \subseteq Request
        BY ElementsOf
      <4>3. r \in Request
        BY <3>2, <4>2, OutstandingIs DEF IInv, TypeOK
      <4>4. r.queue \in Queue
        BY <4>3 DEF Request
      <4> QED  BY <4>1, <4>4, <1>5
    <3> QED  BY <3>1, <3>2, <1>7
  <2> QED  BY <2>1, <2>2 DEF ExpectedInv
<1>9. TickInv'
  BY DEF Ticking, engVars, TickInv
<1> QED  BY <1>6, <1>8, <1>9 DEF IInv

\* A tick without progress: nothing is left to do before a GPU answers.
LEMMA TickIdleInv ==
  ASSUME IInv, TypeOK', TickIdle
  PROVE  IInv'
<1>1. /\ ~ CanSendToGPUs /\ gpuPort = <<>>
      /\ UNCHANGED <<requestsToSend, gpu, gpuPort, reqs, IsRunning, commands, engine>>
  BY DEF TickIdle, queueVars, gpuVars
<1>2. requestsToSend # <<>> => gpu[Head(requestsToSend).gpu] # <<>>
  <2> SUFFICES ASSUME requestsToSend # <<>>, gpu[Head(requestsToSend).gpu] = <<>>
               PROVE  FALSE
    OBVIOUS
  <2>1. Len(gpu[Head(requestsToSend).gpu]) = 0
    OBVIOUS
  <2> QED  BY <2>1, <1>1, GPUAssumption DEF CanSendToGPUs
<1>3. TickInv'
  BY <1>1, <1>2 DEF IInv, TickInv
<1> QED  BY <1>1, <1>3, SameQueues, Framed

\* The engine returns only when no request is out.
LEMMA EngineReturnsInv ==
  ASSUME IInv, TypeOK', EngineReturns
  PROVE  IInv'
<1>1. /\ ~ tick
      /\ \A g \in GPU : gpu[g] = <<>>
      /\ UNCHANGED <<requestsToSend, gpu, gpuPort, reqs, IsRunning, commands, tick>>
  BY DEF EngineReturns, queueVars, gpuVars
<1>2. gpuPort = <<>> /\ requestsToSend = <<>>
  <2>1. requestsToSend # <<>> => Head(requestsToSend).gpu \in GPU
    <3>1. requestsToSend # <<>> => Head(requestsToSend) \in Request
      BY TailOf DEF IInv, TypeOK
    <3> QED  BY <3>1 DEF Request
  <2> QED  BY <2>1, <1>1 DEF IInv, TickInv
<1>3. Outstanding = {}
  <2>1. /\ ToSet(requestsToSend) = {} /\ ToSet(gpuPort) = {}
        /\ \A g \in GPU : ToSet(gpu[g]) = {}
    BY <1>1, <1>2 DEF ToSet
  <2> QED  BY <2>1, OutstandingIs
<1>4. \A q \in Queue : reqs[q] = {}
  BY <1>3 DEF IInv, ExpectedInv
<1>5. TickInv'
  BY <1>1, <1>2, <1>4 DEF TickInv
<1> QED  BY <1>1, <1>5, SameQueues, Framed

\* Every step keeps the invariant.
LEMMA InvStep == IInv /\ [Next]_vars => IInv'
<1> SUFFICES ASSUME IInv, [Next]_vars PROVE IInv'
  OBVIOUS
<1>1. TypeOK'
  BY TypeStep
<1>2. ASSUME NEW a \in App, Enqueue(a) PROVE IInv'
  BY <1>1, <1>2, EnqueueInv
<1>3. ASSUME NEW a \in App, Subscribe(a) \/ AppStep(a) PROVE IInv'
  <2>1. UNCHANGED <<queueVars, gpuVars, engVars>>
    BY <1>3 DEF Subscribe, AppStep, Check, Wait, EnqueueNotify
  <2> QED
    BY <2>1, <1>1, SameQueues, Still DEF queueVars, gpuVars, engVars
<1>4. ASSUME NEW a \in App, Signal(a) PROVE IInv'
  <2>1. UNCHANGED <<queueVars, gpuVars, tick, engine>>
    BY <1>4 DEF Signal
  <2> QED
    BY <2>1, <1>1, SameQueues, Still DEF queueVars, gpuVars
<1>5. CASE AsyncStep
  <2>1. /\ UNCHANGED <<queueVars, gpuVars>>
        /\ tick' \/ tick' = tick
        /\ engine = "running" => engine' = "running"
    BY <1>5 DEF AsyncStep, AsyncTick, AsyncFlag
  <2> QED
    BY <2>1, <1>1, SameQueues, Still DEF queueVars, gpuVars
<1>6. CASE EngineReturns
  BY <1>1, <1>6, EngineReturnsInv
<1>7. CASE RunEngineEnds
  <2>1. /\ UNCHANGED <<queueVars, gpuVars, tick>>
        /\ engine # "running"
    BY <1>7 DEF RunEngineEnds
  <2> QED
    BY <2>1, <1>1, SameQueues, Still DEF queueVars, gpuVars
<1>8. CASE sendToGPUs
  BY <1>1, <1>8, SendInv
<1>9. CASE DequeueNotify
  <2>1. UNCHANGED <<commands, IsRunning, reqs, gpuVars, engVars>>
    BY <1>9 DEF DequeueNotify
  <2> QED
    BY <2>1, <1>1, SameQueues, Still DEF gpuVars, engVars
<1>10. CASE TickIdle
  BY <1>1, <1>10, TickIdleInv
<1>11. ASSUME NEW q \in Queue,
              processLaunchKernelReturn(q) \/ processMemCopyReturn(q)
       PROVE IInv'
  BY <1>1, <1>11, ReturnInv
<1>12. ASSUME NEW q \in Queue, processFlushReturn(q) PROVE IInv'
  BY <1>1, <1>12, AnswerInv DEF processFlushReturn
<1>13. ASSUME NEW q \in Queue, processLaunchKernelCommand(q) PROVE IInv'
  <2>1. PICK rs : StartedWith(q, rs)
    BY <1>13, LaunchStarts DEF IInv
  <2> QED  BY <1>1, <1>13, <2>1, StartInv DEF processLaunchKernelCommand, CanStart
<1>14. ASSUME NEW q \in Queue, processMemCopyCommand(q) PROVE IInv'
  <2>1. PICK rs : StartedWith(q, rs)
    BY <1>14, CopyStarts DEF IInv
  <2> QED  BY <1>1, <1>14, <2>1, StartInv DEF processMemCopyCommand, CanStart
<1>15. ASSUME NEW q \in Queue, processNoopCommand(q) PROVE IInv'
  <2>1. reqs[q] = {}
    BY <1>15 DEF IInv, ExpectedInv, processNoopCommand, CanStart
  <2>2. \A p \in Queue : p # q => /\ commands'[p] = commands[p]
                                  /\ IsRunning'[p] = IsRunning[p]
    BY <1>15 DEF IInv, TypeOK, processNoopCommand, Dequeue
  <2>3. \A p \in Queue : reqs[p] # {} =>
          /\ IsRunning'[p]
          /\ commands'[p] # <<>>
          /\ Head(commands'[p]).num = Head(commands[p]).num
    BY <2>1, <2>2 DEF IInv, ExpectedInv
  <2> QED
    BY <2>3, <1>1, <1>15, Still DEF processNoopCommand, gpuVars, engVars
<1>16. ASSUME NEW g \in GPU, GPUReply(g) PROVE IInv'
  BY <1>1, <1>16, ReplyInv
<1>17. CASE UNCHANGED vars
  BY <1>17, <1>1, SameQueues, Still DEF vars, queueVars, gpuVars, engVars
<1> QED
  BY <1>2, <1>3, <1>4, <1>5, <1>6, <1>7, <1>8, <1>9, <1>10, <1>11, <1>12, <1>13,
     <1>14, <1>15, <1>16, <1>17
  DEF Next, EngineStep, TickStep

\* The invariant holds in every reachable state.
LEMMA InvHolds == Spec => []IInv
<1> QED  BY InitInv, InvStep, PTL DEF Spec

-----------------------------------------------------------------------------
(* The theorems.                                                           *)

\* Queues, requests and the state of the goroutines keep their types.
THEOREM TypeCorrect == Spec => []TypeOK
<1>1. IInv => TypeOK
  BY DEF IInv
<1> QED  BY <1>1, InvHolds, PTL

\* The look-up of the command of a response never fails: the command of a
\* request on its way is the first one of its queue and expects the request.
THEOREM ResponsesFindTheirCommand == Spec => []CommandIsFound
<1>1. IInv => CommandIsFound
  <2> SUFFICES ASSUME IInv, NEW r \in Outstanding
               PROVE  /\ commands[r.queue] # <<>>
                      /\ Head(commands[r.queue]).num = r.num
                      /\ r \in reqs[r.queue]
    BY DEF CommandIsFound
  <2>1. r \in reqs[r.queue]
    BY DEF IInv, ExpectedInv
  <2>2. r.queue \in Queue
    <3>1. \A s \in Seq(Request) : ToSet(s) \subseteq Request
      BY ElementsOf
    <3>2. r \in Request
      BY <3>1, OutstandingIs DEF IInv, TypeOK
    <3> QED  BY <3>2 DEF Request
  <2> QED  BY <2>1, <2>2 DEF IInv, ExpectedInv
<1> QED  BY <1>1, InvHolds, PTL

\* Run does not return while a request of a started command is out.
THEOREM EngineStaysForWork == Spec => []StartedWorkKeepsEngine
<1>1. IInv => StartedWorkKeepsEngine
  BY DEF IInv, TickInv, StartedWorkKeepsEngine
<1> QED  BY <1>1, InvHolds, PTL

\* A drain that returns finds its commands done and none of their requests out.
THEOREM DrainsReturnWhenDone == Spec => DrainMeansDone
<1> DEFINE Done(a) ==
      /\ \A i \in DOMAIN commands[QueueOf[a]] :
           commands[QueueOf[a]][i].num > target[a]
      /\ \A r \in Outstanding : r.queue = QueueOf[a] => r.num > target[a]
<1>1. ASSUME IInv, [Next]_vars, NEW a \in App, pc[a] = "check", pc'[a] = "host"
      PROVE  Done(a)
  <2>1. Check(a)
    <3>1. pc \in [App -> {"host", "notify", "signal", "check", "toWait", "wait"}]
      BY <1>1 DEF IInv, TypeOK
    <3>2. \A q : Woken(q) \in [App -> {"host", "notify", "signal", "check", "toWait", "wait"}]
                 /\ Woken(q)[a] = "check"
      BY <1>1, <3>1 DEF Woken
    <3>3. ASSUME NEW b \in App, Enqueue(b) \/ Subscribe(b) \/ Signal(b) \/ Wait(b)
          PROVE  FALSE
      BY <3>3, <3>1, <1>1 DEF Enqueue, Subscribe, Signal, Wait
    <3>4. ASSUME NEW b \in App, EnqueueNotify(b) PROVE FALSE
      <4>1. b # a
        BY <3>4, <1>1 DEF EnqueueNotify
      <4> QED  BY <4>1, <3>4, <3>2, <1>1 DEF EnqueueNotify
    <3>5. ASSUME NEW b \in App, Check(b), b # a PROVE FALSE
      BY <3>5, <3>1, <1>1 DEF Check
    <3>6. ~ DequeueNotify
      BY <3>2, <1>1 DEF DequeueNotify
    <3>7. pc' # pc
      BY <1>1
    <3> QED
      BY <1>1, <3>3, <3>4, <3>5, <3>6, <3>7
      DEF Next, AppStep, AsyncStep, AsyncTick, AsyncFlag, EngineStep, TickStep,
          EngineReturns, RunEngineEnds, sendToGPUs, TickIdle, GPUReply,
          processLaunchKernelReturn, processMemCopyReturn, processFlushReturn,
          processLaunchKernelCommand, processNoopCommand, processMemCopyCommand,
          vars, appVars
  <2>2. QueueOf[a] \in Queue /\ commands[QueueOf[a]] \in Seq(Command)
    BY <1>1, QueueOfAssumption DEF IInv, TypeOK
  <2>3. commands[QueueOf[a]] = <<>>
    <3>1. Len(commands[QueueOf[a]]) = 0
      BY <2>1, <1>1 DEF Check, IInv, TypeOK
    <3> QED  BY <3>1, <2>2, EmptySeq
  <2>4. \A r \in Outstanding : r.queue # QueueOf[a]
    BY <2>2, <2>3, <1>1 DEF IInv, ExpectedInv
  <2>5. DOMAIN commands[QueueOf[a]] = {}
    BY <2>3
  <2> QED  BY <2>4, <2>5
<1>2. IInv /\ [Next]_vars =>
        [\A a \in App : pc[a] = "check" /\ pc'[a] = "host" => Done(a)]_vars
  BY <1>1
<1> QED  BY <1>2, InvHolds, PTL DEF Spec, DrainMeansDone
=============================================================================
