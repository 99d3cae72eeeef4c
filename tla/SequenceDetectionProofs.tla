------------------------ MODULE SequenceDetectionProofs ------------------------
(***************************************************************************)
(* Proofs about SequenceDetection: what a rule reports happened, and the   *)
(* verdicts and counterexamples of the robustness lab stand, for every     *)
(* pool of events, every pack of rules and corpora of every length.        *)
(***************************************************************************)
EXTENDS SequenceDetection, FiniteSetTheorems, SequenceTheorems, TLAPS

----------------------------------------------------------------------------
(***************************************************************************)
(* Induction, for sets of numbers: without it a finite set would inject    *)
(* into a proper part of itself.                                           *)
(***************************************************************************)
LEMMA Induction ==
  ASSUME NEW S, 0 \in S, \A n \in Nat : n \in S => n + 1 \in S,
         NEW m \in Nat
  PROVE  m \in S
<1>1. SUFFICES ASSUME m \notin S PROVE FALSE
  OBVIOUS
<1> DEFINE Below == {k \in 0 .. m : k \in S}
           Next_ == [k \in Below |-> k + 1]
<1>2. IsFiniteSet(Below) /\ 0 \in Below
  <2>1. IsFiniteSet(0 .. m) /\ Below \in SUBSET (0 .. m) /\ 0 \in Below
    BY FS_Interval
  <2> HIDE DEF Below
  <2> QED BY <2>1, FS_Subset
<1>3. \A k \in Below : k + 1 \in Below \ {0}
  BY <1>1
<1>4. Next_ \in Injection(Below, Below \ {0})
  BY <1>3 DEF Injection, IsInjective
<1>5. Cardinality(Below) <= Cardinality(Below \ {0})
  <2>1. IsFiniteSet(Below \ {0})
    BY <1>2, FS_RemoveElement
  <2> HIDE DEF Below, Next_
  <2> QED BY <1>4, <2>1, FS_Injection
<1>6. Cardinality(Below \ {0}) = Cardinality(Below) - 1 /\ Cardinality(Below) \in Nat
  <2> HIDE DEF Below
  <2> QED BY <1>2, FS_RemoveElement, FS_CardinalityType
<1> QED
  <2> HIDE DEF Below
  <2> QED BY <1>5, <1>6

LEMMA LeastNumber ==
  ASSUME NEW S \in SUBSET Nat, NEW s \in S
  PROVE  \E m \in S : \A k \in S : m <= k
<1>1. SUFFICES ASSUME \A m \in S : \E k \in S : k < m PROVE FALSE
  OBVIOUS
<1> DEFINE Free == {n \in Nat : \A k \in 0 .. n : k \notin S}
<1>2. 0 \in Free
  BY <1>1
<1>3. \A n \in Nat : n \in Free => n + 1 \in Free
  BY <1>1
<1>4. s \in Free
  <2> HIDE DEF Free
  <2> QED BY <1>2, <1>3, Induction
<1> QED BY <1>4

----------------------------------------------------------------------------
(***************************************************************************)
(* Folds.  A fold over a sequence is a function on the sets of its         *)
(* positions, of which only the first n matter.                            *)
(***************************************************************************)
LEMMA MaxOfFirst ==
  ASSUME NEW n \in Nat, n >= 1
  PROVE  Max(1 .. n) = n /\ (1 .. n) \ {Max(1 .. n)} = 1 .. n - 1
<1>1. \A m \in 1 .. n : (\A k \in 1 .. n : m >= k) <=> m = n
  OBVIOUS
<1>2. n \in 1 .. n
  OBVIOUS
<1>3. Max(1 .. n) = n
  BY <1>1, <1>2 DEF Max
<1> QED BY <1>3

LEMMA MaxOfSome ==
  ASSUME NEW n \in Nat, NEW s \in SUBSET (1 .. n), s # {}
  PROVE  Max(s) \in s /\ \A k \in s : k <= Max(s)
<1> DEFINE Above == {n - k : k \in s}
<1>1. Above \in SUBSET Nat /\ Above # {}
  <2>1. \A k \in s : n - k \in Nat
    OBVIOUS
  <2>2. PICK k : k \in s
    OBVIOUS
  <2> QED BY <2>1, <2>2
<1>2. PICK m \in Above : \A k \in Above : m <= k
  <2> HIDE DEF Above
  <2> QED BY <1>1, LeastNumber
<1>3. PICK x \in s : m = n - x
  BY <1>2
<1>4. \A k \in s : x >= k
  <2>1. \A k \in s : n - k \in Above /\ k \in Nat
    OBVIOUS
  <2> HIDE DEF Above
  <2> QED BY <1>2, <1>3, <2>1
<1>5. \E y \in s : \A k \in s : y >= k
  BY <1>4
<1>6. Max(s) \in s /\ \A k \in s : Max(s) >= k
  BY <1>5 DEF Max
<1> QED BY <1>6

Steps(n, S) == [(1 .. n) \X S -> S]

Iterates(iter, n, base, step) ==
  \A s \in SUBSET (1 .. n) :
    iter[s] = IF s = {} THEN base ELSE step[<<Max(s), iter[s \ {Max(s)}]>>]

LEMMA FoldExists ==
  ASSUME NEW n \in Nat, NEW S, NEW base \in S, NEW step \in Steps(n, S)
  PROVE  \E iter \in [SUBSET (1 .. n) -> S] : Iterates(iter, n, base, step)
<1> DEFINE Next_(iter, s) == IF s = {} THEN base ELSE step[<<Max(s), iter[s \ {Max(s)}]>>]
           Good(iter, k) == /\ iter \in [SUBSET (1 .. k) -> S]
                                /\ \A s \in SUBSET (1 .. k) : iter[s] = Next_(iter, s)
           Reached == {k \in Nat : k <= n => \E iter : Good(iter, k)}
<1>1. 0 \in Reached
  <2>1. PICK iter \in [SUBSET (1 .. 0) -> S] : iter = [s \in SUBSET (1 .. 0) |-> base]
    OBVIOUS
  <2>2. 1 .. 0 = {}
    OBVIOUS
  <2>3. \A s \in SUBSET (1 .. 0) : s = {}
    BY <2>2
  <2>4. \A s \in SUBSET (1 .. 0) : iter[s] = Next_(iter, s)
    BY <2>1, <2>3
  <2>5. Good(iter, 0)
    BY <2>4
  <2> HIDE DEF Good
  <2> QED BY <2>5
<1>2. \A k \in Nat : k \in Reached => k + 1 \in Reached
  <2>1. SUFFICES ASSUME NEW k \in Nat, k + 1 <= n, NEW old, Good(old, k)
                 PROVE  \E iter : Good(iter, k + 1)
    <3> HIDE DEF Good
    <3> QED OBVIOUS
  <2>2. PICK l \in 1 .. n : l = k + 1
    BY <2>1
  <2>3. \A s \in SUBSET (1 .. l) : /\ s \ {l} \in SUBSET (1 .. k)
                                   /\ l \in s => Max(s) = l
                                   /\ l \notin s => s \in SUBSET (1 .. k)
    <3>1. SUFFICES ASSUME NEW s \in SUBSET (1 .. l)
                   PROVE  /\ s \ {l} \in SUBSET (1 .. k)
                          /\ l \in s => Max(s) = l
                          /\ l \notin s => s \in SUBSET (1 .. k)
      OBVIOUS
    <3>2. \A x \in s : x \in 1 .. l /\ (x # l => x \in 1 .. k)
      BY <2>2
    <3>3. l \in s => \A m \in s : (\A x \in s : m >= x) <=> m = l
      BY <2>2, <3>2
    <3>4. l \in s => Max(s) = l
      BY <3>3 DEF Max
    <3> QED BY <3>2, <3>4
  <2>4. PICK iter : iter = [s \in SUBSET (1 .. l) |->
                              IF l \in s THEN step[<<l, old[s \ {l}]>>] ELSE old[s]]
    OBVIOUS
  <2>5. iter \in [SUBSET (1 .. l) -> S]
    <3>1. \A s \in SUBSET (1 .. l) :
            (IF l \in s THEN step[<<l, old[s \ {l}]>>] ELSE old[s]) \in S
      BY <2>1, <2>2, <2>3 DEF Steps
    <3> QED BY <2>4, <3>1
  <2>6. \A s \in SUBSET (1 .. l) : iter[s] = Next_(iter, s)
    <3>1. SUFFICES ASSUME NEW s \in SUBSET (1 .. l) PROVE iter[s] = Next_(iter, s)
      OBVIOUS
    <3>2. CASE l \in s
      <4>1. s # {} /\ Max(s) = l /\ s \ {l} \in SUBSET (1 .. l) /\ l \notin s \ {l}
        BY <2>3, <3>2
      <4>2. iter[s \ {l}] = old[s \ {l}]
        BY <2>4, <4>1
      <4> QED BY <2>4, <3>2, <4>1, <4>2
    <3>3. CASE l \notin s
      <4>1. s \in SUBSET (1 .. k) /\ iter[s] = old[s]
        BY <2>3, <2>4, <3>3
      <4>2. old[s] = Next_(old, s)
        BY <2>1, <4>1
      <4>3. l \notin s \ {Max(s)} /\ s \ {Max(s)} \in SUBSET (1 .. l)
        BY <3>3
      <4>4. iter[s \ {Max(s)}] = old[s \ {Max(s)}]
        BY <2>4, <4>3
      <4>5. Next_(iter, s) = Next_(old, s)
        BY <4>4
      <4> HIDE DEF Next_
      <4> QED BY <4>1, <4>2, <4>5
    <3> QED BY <3>2, <3>3
  <2>7. Good(iter, k + 1)
    BY <2>2, <2>5, <2>6
  <2> HIDE DEF Good
  <2> QED BY <2>7
<1>3. n \in Reached
  <2> HIDE DEF Reached
  <2> QED BY <1>1, <1>2, Induction
<1>4. PICK iter : Good(iter, n)
  <2> HIDE DEF Good
  <2> QED BY <1>3
<1> QED BY <1>4 DEF Iterates

IteratesIn(f, n, S, base, step) ==
  /\ f[{}] = base
  /\ \A s \in SUBSET (1 .. n) :
       s # {} /\ f[s \ {Max(s)}] \in S => f[s] = step[<<Max(s), f[s \ {Max(s)}]>>]

StagesOf(stage, n, S, base, step) ==
  /\ \A k \in 0 .. n : stage[k] \in S
  /\ stage[0] = base
  /\ \A k \in 1 .. n : stage[k] = step[<<k, stage[k - 1]>>]

LEMMA FoldStages ==
  ASSUME NEW n \in Nat, NEW S, NEW base \in S, NEW step \in Steps(n, S),
         NEW f, IteratesIn(f, n, S, base, step)
  PROVE  \E stage : StagesOf(stage, n, S, base, step) /\ f[1 .. n] = stage[n]
<1> DEFINE stage == [k \in 0 .. n |-> f[1 .. k]]
           Reached == {k \in Nat : k <= n => stage[k] \in S}
<1>1. stage[0] = base
  <2>1. 1 .. 0 = {} /\ 0 \in 0 .. n
    OBVIOUS
  <2> QED BY <2>1 DEF IteratesIn
<1>2. \A k \in 1 .. n : stage[k - 1] \in S => stage[k] = step[<<k, stage[k - 1]>>]
  <2>1. SUFFICES ASSUME NEW k \in 1 .. n, stage[k - 1] \in S
                 PROVE  stage[k] = step[<<k, stage[k - 1]>>]
    OBVIOUS
  <2>2. Max(1 .. k) = k /\ (1 .. k) \ {Max(1 .. k)} = 1 .. k - 1
    BY MaxOfFirst
  <2>3. PICK s \in SUBSET (1 .. n) : s = 1 .. k /\ s # {}
    <3>1. 1 .. k \in SUBSET (1 .. n) /\ k \in 1 .. k
      OBVIOUS
    <3> QED BY <3>1
  <2>4. Max(s) = k /\ s \ {Max(s)} = 1 .. k - 1
    BY <2>2, <2>3
  <2>5. f[s \ {Max(s)}] = stage[k - 1] /\ f[s] = stage[k]
    <3>1. k \in 0 .. n /\ k - 1 \in 0 .. n
      OBVIOUS
    <3>2. stage[k] = f[1 .. k] /\ stage[k - 1] = f[1 .. k - 1]
      BY <3>1
    <3> HIDE DEF stage
    <3> QED BY <2>3, <2>4, <3>2
  <2> HIDE DEF stage
  <2> QED BY <2>1, <2>3, <2>4, <2>5 DEF IteratesIn
<1>3. \A k \in Nat : k \in Reached => k + 1 \in Reached
  <2>1. SUFFICES ASSUME NEW k \in Nat, k + 1 <= n, stage[k] \in S PROVE stage[k + 1] \in S
    <3> HIDE DEF stage
    <3> QED OBVIOUS
  <2>2. PICK l \in 1 .. n : l = k + 1 /\ l - 1 = k
    BY <2>1
  <2>3. stage[l] = step[<<l, stage[l - 1]>>]
    BY <1>2, <2>1, <2>2
  <2> HIDE DEF stage
  <2> QED BY <2>1, <2>2, <2>3 DEF Steps
<1>4. 0 \in Reached
  BY <1>1
<1>5. \A k \in Nat : k <= n => stage[k] \in S
  <2> SUFFICES ASSUME NEW k \in Nat PROVE k \in Reached
    OBVIOUS
  <2> HIDE DEF Reached
  <2> QED BY <1>3, <1>4, Induction
<1>6. \A k \in 0 .. n : stage[k] \in S
  <2> HIDE DEF stage
  <2> QED BY <1>5
<1>7. \A k \in 1 .. n : stage[k - 1] \in S
  <2> HIDE DEF stage
  <2> QED BY <1>5
<1>8. f[1 .. n] = stage[n]
  OBVIOUS
<1> HIDE DEF stage
<1>9. StagesOf(stage, n, S, base, step)
  BY <1>1, <1>2, <1>6, <1>7 DEF StagesOf
<1> QED BY <1>8, <1>9

(***************************************************************************)
(* The groups: keys in the order in which they appear, and the events of a *)
(* key in the order in which they occurred.                                *)
(***************************************************************************)
AddKey(paths, keys, event) ==
  LET key == GroupKey(event, paths)
  IN  IF key \in Range(keys) THEN keys ELSE Append(keys, key)

KeyStages(stage, events, n, paths) ==
  /\ stage[0] = << >>
  /\ \A k \in 1 .. n : stage[k] = AddKey(paths, stage[k - 1], events[k])
  /\ GroupKeys(events, paths) = stage[n]
  /\ \A k \in 0 .. n : stage[k] \in Seq({GroupKey(events[i], paths) : i \in 1 .. n})

LEMMA GroupKeysStages ==
  ASSUME NEW events, NEW n \in Nat, DOMAIN events = 1 .. n, NEW paths
  PROVE  \E stage : KeyStages(stage, events, n, paths)
<1> DEFINE S == Seq({GroupKey(events[i], paths) : i \in 1 .. n})
           step == [p \in (1 .. n) \X S |-> AddKey(paths, p[2], events[p[1]])]
           Folds(iter) == iter = [s \in SUBSET (DOMAIN events) |->
                            IF s = {} THEN << >>
                            ELSE AddKey(paths, iter[s \ {Max(s)}], events[Max(s)])]
           fold == CHOOSE iter : Folds(iter)
<1>0. PICK base : base = << >>
  OBVIOUS
<1>1. GroupKeys(events, paths) = fold[DOMAIN events]
  BY DEF GroupKeys, FoldLeft, MapThenFoldSet, AddKey
<1>2. base \in S
  BY <1>0
<1>3. step \in Steps(n, S)
  <2>1. \A keys \in S, i \in 1 .. n : AddKey(paths, keys, events[i]) \in S
    BY DEF AddKey
  <2> QED BY <2>1 DEF Steps
<1>4. PICK iter \in [SUBSET (1 .. n) -> S] : Iterates(iter, n, base, step)
  <2> HIDE DEF step, S
  <2> QED BY <1>2, <1>3, FoldExists
<1>5. \A s \in SUBSET (1 .. n) :
        s # {} => Max(s) \in 1 .. n /\ s \ {Max(s)} \in SUBSET (1 .. n)
  BY MaxOfSome
<1>6. Folds(iter)
  <2>1. \A s \in SUBSET (1 .. n) : iter[s] =
               IF s = {} THEN << >> ELSE AddKey(paths, iter[s \ {Max(s)}], events[Max(s)])
    <3>1. SUFFICES ASSUME NEW s \in SUBSET (1 .. n), s # {}
                   PROVE  iter[s] = AddKey(paths, iter[s \ {Max(s)}], events[Max(s)])
      BY <1>0, <1>4 DEF Iterates
    <3>2. PICK m \in 1 .. n, keys \in S : m = Max(s) /\ keys = iter[s \ {Max(s)}]
      BY <1>4, <1>5, <3>1
    <3>3. iter[s] = step[<<m, keys>>]
      BY <1>4, <3>1, <3>2 DEF Iterates
    <3>4. step[<<m, keys>>] = AddKey(paths, keys, events[m])
      OBVIOUS
    <3> QED BY <3>2, <3>3, <3>4
  <2>2. iter = [s \in SUBSET (1 .. n) |-> iter[s]]
    OBVIOUS
  <2> HIDE DEF step
  <2> QED BY <2>1, <2>2
<1>7. PICK f : f = fold /\ Folds(f)
  <2> HIDE DEF Folds
  <2> QED BY <1>6
<1>8. f[{}] = << >> /\ \A s \in SUBSET (1 .. n) :
        s # {} => f[s] = AddKey(paths, f[s \ {Max(s)}], events[Max(s)])
  BY <1>7
<1>9. IteratesIn(f, n, S, base, step)
  <2> HIDE DEF S
  <2> QED BY <1>0, <1>5, <1>8 DEF IteratesIn
<1>10. PICK stage : StagesOf(stage, n, S, base, step) /\ f[1 .. n] = stage[n]
  <2> HIDE DEF S, step
  <2> QED BY <1>2, <1>3, <1>9, FoldStages
<1>11. \A k \in 1 .. n : stage[k] = AddKey(paths, stage[k - 1], events[k])
  <2>1. \A k \in 1 .. n : stage[k - 1] \in S
    <3> HIDE DEF S
    <3> QED BY <1>10 DEF StagesOf
  <2> HIDE DEF S
  <2> QED BY <1>10, <2>1 DEF StagesOf
<1>12. \A k \in 0 .. n : stage[k] \in S
  <2> HIDE DEF S
  <2> QED BY <1>10 DEF StagesOf
<1>13. stage[0] = << >>
  BY <1>0, <1>10 DEF StagesOf
<1> HIDE DEF fold
<1> QED BY <1>1, <1>7, <1>10, <1>11, <1>12, <1>13 DEF KeyStages

LEMMA FirstOfSome ==
  ASSUME NEW n \in Nat, NEW I \in SUBSET (1 .. n), NEW i, i = IF I # {} THEN Min(I) ELSE 0
  PROVE  /\ i \in 0 .. n
         /\ I = {} => i = 0
         /\ i = 0 => I = {}
         /\ I # {} => i \in I
         /\ \A j \in I : i <= j
<1>1. CASE I = {}
  BY <1>1
<1>2. CASE I # {}
  <2>1. I \in SUBSET Nat
    OBVIOUS
  <2>2. PICK m \in I : \A k \in I : m <= k
    BY <1>2, <2>1, LeastNumber
  <2>3. Min(I) \in I /\ \A k \in I : Min(I) <= k
    BY <2>2 DEF Min
  <2>4. i = Min(I)
    BY <1>2
  <2>5. i \in I /\ \A k \in I : i <= k
    BY <2>3, <2>4
  <2>6. i \in 1 .. n
    BY <2>5
  <2> QED BY <1>2, <2>5, <2>6
<1> QED BY <1>1, <1>2

LEMMA PieceShape ==
  ASSUME NEW E, NEW s \in Seq(E), NEW m \in 1 .. Len(s) + 1, NEW n \in 0 .. Len(s),
         NEW new, new = SubSeq(s, m, n)
  PROVE  /\ new \in Seq(E) /\ Len(new) = IF m <= n THEN (n - m) + 1 ELSE 0
         /\ \A j \in 1 .. (n - m) + 1 : new[j] = s[(m + j) - 1]
<1>1. PICK l \in Nat : l = Len(s) /\ \A j \in 1 .. l : s[j] \in E
  BY ElementOfSeq, LenProperties
<1>2. \A j \in m .. n : s[j] \in E
  BY <1>1
<1>3. m \in Int /\ n \in Int
  BY <1>1
<1> QED BY <1>2, <1>3, SubSeqProperties

LEMMA JoinShape ==
  ASSUME NEW E, NEW a \in Seq(E), NEW b \in Seq(E), NEW new, new = a \o b
  PROVE  /\ new \in Seq(E) /\ Len(new) = Len(a) + Len(b)
         /\ \A j \in 1 .. Len(a) + Len(b) :
              new[j] = IF j <= Len(a) THEN a[j] ELSE b[j - Len(a)]
BY ConcatProperties

\* What a concatenation holds, as one fact.
Joint(new, a, b, E) ==
  /\ new \in Seq(E) /\ Len(new) = Len(a) + Len(b)
  /\ \A j \in 1 .. Len(a) + Len(b) : new[j] = IF j <= Len(a) THEN a[j] ELSE b[j - Len(a)]

LEMMA JoinIsJoint ==
  ASSUME NEW E, NEW a \in Seq(E), NEW b \in Seq(E), NEW new, new = a \o b
  PROVE  Joint(new, a, b, E)
BY JoinShape DEF Joint

LEMMA InsertShape ==
  ASSUME NEW E, NEW s \in Seq(E), NEW e \in E, NEW i \in 1 .. Len(s) + 1,
         NEW new, new = InsertAt(s, i, e)
  PROVE  /\ new \in Seq(E) /\ Len(new) = Len(s) + 1
         /\ \A j \in 1 .. Len(s) + 1 :
              new[j] = IF j < i THEN s[j] ELSE IF j = i THEN e ELSE s[j - 1]
<1>1. PICK n \in Nat : n = Len(s) /\ \A j \in 1 .. n : s[j] \in E
  BY ElementOfSeq, LenProperties
<1>2. PICK front : front = SubSeq(s, 1, i - 1)
  OBVIOUS
<1>3. PICK back : back = SubSeq(s, i, n)
  OBVIOUS
<1>4. PICK mid : mid = <<e>>
  OBVIOUS
<1>5. PICK most : most = front \o mid
  OBVIOUS
<1>6. /\ front \in Seq(E) /\ Len(front) = i - 1
      /\ \A j \in 1 .. i - 1 : front[j] = s[j]
  <2>1. i \in Nat /\ 1 \in 1 .. n + 1 /\ i - 1 \in 0 .. n /\ ((i - 1) - 1) + 1 = i - 1
    BY <1>1
  <2>2. /\ front \in Seq(E) /\ Len(front) = IF 1 <= i - 1 THEN ((i - 1) - 1) + 1 ELSE 0
        /\ \A j \in 1 .. ((i - 1) - 1) + 1 : front[j] = s[(1 + j) - 1]
    BY <1>1, <1>2, <2>1, PieceShape
  <2> QED BY <2>1, <2>2
<1>7. /\ back \in Seq(E) /\ Len(back) = (n + 1) - i
      /\ \A j \in 1 .. (n + 1) - i : back[j] = s[(i + j) - 1]
  <2>1. /\ back \in Seq(E) /\ Len(back) = IF i <= n THEN (n - i) + 1 ELSE 0
        /\ \A j \in 1 .. (n - i) + 1 : back[j] = s[(i + j) - 1]
    BY <1>1, <1>3, PieceShape
  <2> QED BY <1>1, <2>1
<1>8. mid \in Seq(E) /\ Len(mid) = 1 /\ mid[1] = e
  BY <1>4
<1>9. /\ most \in Seq(E) /\ Len(most) = i
      /\ \A j \in 1 .. i : most[j] = IF j < i THEN s[j] ELSE e
  <2>1. /\ most \in Seq(E) /\ Len(most) = Len(front) + Len(mid)
        /\ \A j \in 1 .. Len(front) + Len(mid) :
             most[j] = IF j <= Len(front) THEN front[j] ELSE mid[j - Len(front)]
    <3>1. front \in Seq(E) /\ mid \in Seq(E)
      BY <1>6, <1>8
    <3> QED BY <1>5, <3>1, JoinShape
  <2> QED BY <1>1, <1>6, <1>8, <2>1
<1>10. /\ new \in Seq(E) /\ Len(new) = n + 1
       /\ \A j \in 1 .. n + 1 : new[j] = IF j <= i THEN most[j] ELSE back[j - i]
  <2>1. new = most \o back
    BY <1>1, <1>2, <1>3, <1>4, <1>5 DEF InsertAt
  <2>2. /\ new \in Seq(E) /\ Len(new) = Len(most) + Len(back)
        /\ \A j \in 1 .. Len(most) + Len(back) :
             new[j] = IF j <= Len(most) THEN most[j] ELSE back[j - Len(most)]
    BY <1>7, <1>9, <2>1, JoinShape
  <2> QED BY <1>1, <1>7, <1>9, <2>2
<1>11. \A j \in 1 .. n + 1 : new[j] = IF j < i THEN s[j] ELSE IF j = i THEN e ELSE s[j - 1]
  <2>1. SUFFICES ASSUME NEW j \in 1 .. n + 1, j > i PROVE new[j] = s[j - 1]
    BY <1>1, <1>9, <1>10
  <2>2. j - i \in 1 .. (n + 1) - i /\ (i + (j - i)) - 1 = j - 1
    BY <1>1, <2>1
  <2>3. back[j - i] = s[(i + (j - i)) - 1]
    BY <1>7, <2>2
  <2> QED BY <1>1, <1>10, <2>1, <2>2, <2>3
<1> QED BY <1>1, <1>10, <1>11

AddInOrder(paths, key, ordered, event) ==
  IF GroupKey(event, paths) = key THEN InsertInOrder(ordered, event) ELSE ordered

InsertedAt(new, s, e, i) ==
  /\ i \in 1 .. Len(s) + 1
  /\ \A j \in 1 .. Len(s) + 1 :
       new[j] = IF j < i THEN s[j] ELSE IF j = i THEN e ELSE s[j - 1]
  /\ \A j \in 1 .. i - 1 : ~Before(e, s[j])
  /\ i <= Len(s) => Before(e, s[i])

LEMMA InsertInOrderShape ==
  ASSUME NEW E, NEW s \in Seq(E), NEW e \in E, NEW new, new = InsertInOrder(s, e)
  PROVE  /\ new \in Seq(E) /\ Len(new) = Len(s) + 1
         /\ \E i : InsertedAt(new, s, e, i)
<1>1. PICK n \in Nat : n = Len(s)
  BY LenProperties
<1>2. PICK I \in SUBSET (1 .. n) : I = {j \in 1 .. n : Before(e, s[j])}
  OBVIOUS
<1>3. PICK i : i = IF I # {} THEN Min(I) ELSE 0
  OBVIOUS
<1>4. new = InsertAt(s, IF i = 0 THEN n + 1 ELSE i, e)
  BY <1>1, <1>2, <1>3 DEF InsertInOrder, SelectInSeq
<1>5. /\ i \in 0 .. n /\ (I = {} => i = 0) /\ (i = 0 => I = {}) /\ (I # {} => i \in I)
      /\ \A j \in I : i <= j
  BY <1>3, FirstOfSome
<1>6. PICK at \in 1 .. n + 1 : at = IF i = 0 THEN n + 1 ELSE i
  BY <1>5
<1>7. \A j \in 1 .. at - 1 : ~Before(e, s[j])
  <2>1. SUFFICES ASSUME NEW j \in 1 .. at - 1, Before(e, s[j]) PROVE FALSE
    OBVIOUS
  <2>2. j \in 1 .. n
    <3>1. at \in 1 .. n + 1 /\ n \in Nat
      BY <1>1, <1>6
    <3> QED BY <2>1, <3>1
  <2>3. j \in I
    BY <1>2, <2>1, <2>2
  <2> QED BY <1>5, <1>6, <2>1, <2>3
<1>8. at <= n => Before(e, s[at])
  BY <1>2, <1>5, <1>6
<1>9. new = InsertAt(s, at, e)
  BY <1>4, <1>6
<1>10. /\ new \in Seq(E) /\ Len(new) = n + 1
       /\ \A j \in 1 .. n + 1 :
            new[j] = IF j < at THEN s[j] ELSE IF j = at THEN e ELSE s[j - 1]
  BY <1>1, <1>9, InsertShape
<1> QED BY <1>1, <1>7, <1>8, <1>10 DEF InsertedAt

OrderStages(stage, E, events, n, paths, key) ==
  /\ stage[0] = << >>
  /\ \A k \in 1 .. n : stage[k] = AddInOrder(paths, key, stage[k - 1], events[k])
  /\ OrderedGroup(events, paths, key) = stage[n]
  /\ \A k \in 0 .. n : stage[k] \in Seq(E)

LEMMA OrderedGroupStages ==
  ASSUME NEW E, NEW events, NEW n \in Nat, DOMAIN events = 1 .. n,
         \A i \in 1 .. n : events[i] \in E, NEW paths, NEW key
  PROVE  \E stage : OrderStages(stage, E, events, n, paths, key)
<1> DEFINE S == Seq(E)
           step == [p \in (1 .. n) \X S |-> AddInOrder(paths, key, p[2], events[p[1]])]
           Folds(iter) == iter = [s \in SUBSET (DOMAIN events) |->
                            IF s = {} THEN << >>
                            ELSE AddInOrder(paths, key, iter[s \ {Max(s)}], events[Max(s)])]
           fold == CHOOSE iter : Folds(iter)
<1>0. PICK base : base = << >>
  OBVIOUS
<1>1. OrderedGroup(events, paths, key) = fold[DOMAIN events]
  BY DEF OrderedGroup, FoldLeft, MapThenFoldSet, AddInOrder
<1>2. base \in S
  BY <1>0
<1>3. step \in Steps(n, S)
  <2>1. \A ordered \in S, i \in 1 .. n : AddInOrder(paths, key, ordered, events[i]) \in S
    BY InsertInOrderShape DEF AddInOrder
  <2> QED BY <2>1 DEF Steps
<1>4. PICK iter \in [SUBSET (1 .. n) -> S] : Iterates(iter, n, base, step)
  <2> HIDE DEF step, S
  <2> QED BY <1>2, <1>3, FoldExists
<1>5. \A s \in SUBSET (1 .. n) :
        s # {} => Max(s) \in 1 .. n /\ s \ {Max(s)} \in SUBSET (1 .. n)
  BY MaxOfSome
<1>6. Folds(iter)
  <2>1. \A s \in SUBSET (1 .. n) : iter[s] =
               IF s = {} THEN << >> ELSE AddInOrder(paths, key, iter[s \ {Max(s)}], events[Max(s)])
    <3>1. SUFFICES ASSUME NEW s \in SUBSET (1 .. n), s # {}
                   PROVE  iter[s] = AddInOrder(paths, key, iter[s \ {Max(s)}], events[Max(s)])
      BY <1>0, <1>4 DEF Iterates
    <3>2. PICK m \in 1 .. n, old \in S : m = Max(s) /\ old = iter[s \ {Max(s)}]
      BY <1>4, <1>5, <3>1
    <3>3. iter[s] = step[<<m, old>>]
      BY <1>4, <3>1, <3>2 DEF Iterates
    <3>4. step[<<m, old>>] = AddInOrder(paths, key, old, events[m])
      OBVIOUS
    <3> QED BY <3>2, <3>3, <3>4
  <2>2. iter = [s \in SUBSET (1 .. n) |-> iter[s]]
    OBVIOUS
  <2> HIDE DEF step
  <2> QED BY <2>1, <2>2
<1>7. PICK f : f = fold /\ Folds(f)
  <2> HIDE DEF Folds
  <2> QED BY <1>6
<1>8. f[{}] = << >> /\ \A s \in SUBSET (1 .. n) :
        s # {} => f[s] = AddInOrder(paths, key, f[s \ {Max(s)}], events[Max(s)])
  BY <1>7
<1>9. IteratesIn(f, n, S, base, step)
  <2> HIDE DEF S
  <2> QED BY <1>0, <1>5, <1>8 DEF IteratesIn
<1>10. PICK stage : StagesOf(stage, n, S, base, step) /\ f[1 .. n] = stage[n]
  <2> HIDE DEF S, step
  <2> QED BY <1>2, <1>3, <1>9, FoldStages
<1>11. \A k \in 1 .. n : stage[k] = AddInOrder(paths, key, stage[k - 1], events[k])
  <2>1. \A k \in 1 .. n : stage[k - 1] \in S
    <3> HIDE DEF S
    <3> QED BY <1>10 DEF StagesOf
  <2> HIDE DEF S
  <2> QED BY <1>10, <2>1 DEF StagesOf
<1>12. \A k \in 0 .. n : stage[k] \in S
  <2> HIDE DEF S
  <2> QED BY <1>10 DEF StagesOf
<1>13. stage[0] = << >>
  BY <1>0, <1>10 DEF StagesOf
<1> HIDE DEF fold
<1> QED BY <1>1, <1>7, <1>10, <1>11, <1>12, <1>13 DEF OrderStages

\* Events of which no two are the same, and events in the order in which they occurred.
Distinct(events) == \A i, j \in DOMAIN events : events[i] = events[j] => i = j

Sorted(events) == \A i, j \in DOMAIN events : i < j => Before(events[i], events[j])

Typed(E) == \A e \in E : /\ e.at \in Int /\ e.sequence \in Int /\ e.id \in Int
                         /\ \A f \in E : e.id = f.id => e = f

LEMMA BeforeOrders ==
  ASSUME NEW E, Typed(E), NEW a \in E, NEW b \in E, NEW c \in E
  PROVE  /\ ~Before(a, a)
         /\ Before(a, b) => ~Before(b, a)
         /\ Before(a, b) /\ Before(b, c) => Before(a, c)
         /\ a # b /\ ~Before(a, b) => Before(b, a)
BY DEF Typed, Before

LEMMA InsertKeeps ==
  ASSUME NEW E, NEW s \in Seq(E), NEW e \in E, NEW new, new = InsertInOrder(s, e),
         Distinct(s), e \notin Range(s)
  PROVE  /\ Range(new) = Range(s) \cup {e} /\ Distinct(new)
         /\ Typed(E) /\ Sorted(s) => Sorted(new)
<1>1. PICK n \in Nat : n = Len(s) /\ DOMAIN s = 1 .. n /\ \A j \in 1 .. n : s[j] \in E
  BY ElementOfSeq, LenProperties
<1>2. PICK i \in 1 .. n + 1 :
        /\ new \in Seq(E) /\ Len(new) = n + 1
        /\ \A j \in 1 .. n + 1 :
              new[j] = IF j < i THEN s[j] ELSE IF j = i THEN e ELSE s[j - 1]
        /\ \A j \in 1 .. i - 1 : ~Before(e, s[j])
        /\ i <= n => Before(e, s[i])
  <2>1. new \in Seq(E) /\ Len(new) = Len(s) + 1
    BY InsertInOrderShape
  <2>2. PICK i : InsertedAt(new, s, e, i)
    BY InsertInOrderShape
  <2> QED BY <1>1, <2>1, <2>2 DEF InsertedAt
<1>3. DOMAIN new = 1 .. n + 1
  BY <1>2, LenProperties
<1>4. \A j \in 1 .. n : s[j] # e
  BY <1>1 DEF Range
<1>5. Range(new) = Range(s) \cup {e}
  <2>1. \A j \in 1 .. n + 1 : new[j] \in Range(s) \cup {e}
    <3>1. \A j \in 1 .. n : s[j] \in Range(s)
      BY <1>1 DEF Range
    <3>2. \A j \in 1 .. n + 1 : \/ j < i /\ j \in 1 .. n
                                \/ j = i
                                \/ ~(j < i) /\ j # i /\ j - 1 \in 1 .. n
      OBVIOUS
    <3>3. \A j \in 1 .. n + 1 :
             new[j] = IF j < i THEN s[j] ELSE IF j = i THEN e ELSE s[j - 1]
      BY <1>2
    <3> QED BY <3>1, <3>2, <3>3
  <2>2. e \in Range(new)
    BY <1>2, <1>3 DEF Range
  <2>3. \A j \in 1 .. n : s[j] \in Range(new)
    <3>1. SUFFICES ASSUME NEW j \in 1 .. n PROVE \E k \in 1 .. n + 1 : new[k] = s[j]
      BY <1>3 DEF Range
    <3>2. CASE j < i
      BY <1>2, <3>2
    <3>3. CASE j >= i
      <4>1. j + 1 \in 1 .. n + 1 /\ new[j + 1] = s[(j + 1) - 1] /\ (j + 1) - 1 = j
        BY <1>1, <1>2, <3>3
      <4> QED BY <4>1
    <3> QED BY <3>2, <3>3
  <2> QED BY <1>1, <1>3, <2>1, <2>2, <2>3 DEF Range
<1>6. Distinct(new)
  <2>1. SUFFICES ASSUME NEW j \in 1 .. n + 1, NEW k \in 1 .. n + 1, new[j] = new[k], j < k
                 PROVE  FALSE
    BY <1>3 DEF Distinct
  <2>2. \A l \in 1 .. n + 1 : /\ l < i => l \in 1 .. n /\ new[l] = s[l]
                              /\ l = i => new[l] = e
                              /\ l > i => l - 1 \in 1 .. n /\ new[l] = s[l - 1]
    BY <1>1, <1>2
  <2>3. \A l, m \in 1 .. n : s[l] = s[m] => l = m
    BY <1>1 DEF Distinct
  <2>4. CASE j < i
    <3>1. j \in 1 .. n /\ new[j] = s[j]
      BY <2>2, <2>4
    <3>2. CASE k < i
      <4>1. k \in 1 .. n /\ new[k] = s[k]
        BY <2>2, <3>2
      <4>2. j = k
        BY <2>1, <2>3, <3>1, <4>1
      <4> QED BY <2>1, <4>2
    <3>3. CASE k = i
      BY <1>4, <2>1, <2>2, <3>1, <3>3
    <3>4. CASE k > i
      <4>1. k - 1 \in 1 .. n /\ new[k] = s[k - 1]
        BY <2>2, <3>4
      <4>2. j = k - 1
        BY <2>1, <2>3, <3>1, <4>1
      <4> QED BY <1>2, <2>4, <3>4, <4>2
    <3> QED BY <1>2, <3>2, <3>3, <3>4
  <2>5. CASE j = i
    <3>1. k > i
      BY <2>1, <2>5
    <3>2. k - 1 \in 1 .. n /\ new[k] = s[k - 1]
      BY <2>2, <3>1
    <3> QED BY <1>4, <2>1, <2>2, <2>5, <3>2
  <2>6. CASE j > i
    <3>1. k > i
      BY <1>2, <2>1, <2>6
    <3>2. j - 1 \in 1 .. n /\ new[j] = s[j - 1] /\ k - 1 \in 1 .. n /\ new[k] = s[k - 1]
      BY <2>2, <2>6, <3>1
    <3>3. j - 1 = k - 1
      BY <2>1, <2>3, <3>2
    <3> QED BY <2>1, <3>3
  <2> QED BY <1>2, <2>4, <2>5, <2>6
<1>7. ASSUME Typed(E), Sorted(s) PROVE Sorted(new)
  <2>1. SUFFICES ASSUME NEW j \in 1 .. n + 1, NEW k \in 1 .. n + 1, j < k
                 PROVE  Before(new[j], new[k])
    BY <1>3 DEF Sorted
  <2>2. \A l \in 1 .. n + 1 : /\ l < i => l \in 1 .. n /\ new[l] = s[l]
                              /\ l = i => new[l] = e
                              /\ l > i => l - 1 \in 1 .. n /\ new[l] = s[l - 1]
    BY <1>1, <1>2
  <2>3. \A l \in 1 .. n : l < i => Before(s[l], e)
    BY <1>1, <1>2, <1>4, <1>7, BeforeOrders
  <2>4. \A l \in 1 .. n : l >= i => Before(e, s[l])
    <3>1. SUFFICES ASSUME NEW l \in 1 .. n, l >= i PROVE Before(e, s[l])
      OBVIOUS
    <3>2. Before(e, s[i]) /\ i \in 1 .. n
      BY <1>2, <3>1
    <3>3. l = i \/ Before(s[i], s[l])
      BY <1>1, <1>7, <3>1, <3>2 DEF Sorted
    <3> QED BY <1>1, <1>7, <3>1, <3>2, <3>3, BeforeOrders
  <2>5. \A l, m \in 1 .. n : l < m => Before(s[l], s[m])
    BY <1>1, <1>7 DEF Sorted
  <2> QED BY <2>1, <2>2, <2>3, <2>4, <2>5
<1> QED BY <1>5, <1>6, <1>7

LEMMA SequenceShape ==
  ASSUME NEW E, NEW s \in Seq(E)
  PROVE  /\ Len(s) \in Nat /\ DOMAIN s = 1 .. Len(s)
         /\ \A i \in 1 .. Len(s) : s[i] \in E
         /\ \A e : e \in Range(s) <=> \E i \in 1 .. Len(s) : s[i] = e
BY LenProperties, ElementOfSeq DEF Range

LEMMA GroupShape ==
  ASSUME NEW E, NEW events \in Seq(E), Distinct(events), NEW paths, NEW key,
         NEW group, group = OrderedGroup(events, paths, key)
  PROVE  /\ group \in Seq(E) /\ Distinct(group)
         /\ \A e : e \in Range(group) <=> e \in Range(events) /\ GroupKey(e, paths) = key
         /\ Typed(E) => Sorted(group)
<1>1. PICK n \in Nat : n = Len(events) /\ DOMAIN events = 1 .. n /\ \A i \in 1 .. n : events[i] \in E
  BY SequenceShape
<1>2. PICK stage :
        /\ stage[0] = << >>
        /\ \A k \in 1 .. n : stage[k] = AddInOrder(paths, key, stage[k - 1], events[k])
        /\ group = stage[n]
        /\ \A k \in 0 .. n : stage[k] \in Seq(E)
  <2>1. n \in Nat /\ DOMAIN events = 1 .. n
    BY <1>1
  <2>2. \A i \in 1 .. n : events[i] \in E
    BY <1>1
  <2>3. PICK stage : OrderStages(stage, E, events, n, paths, key)
    BY <2>1, <2>2, OrderedGroupStages
  <2> QED BY <2>3 DEF OrderStages
<1> DEFINE Good(k) ==
             /\ Distinct(stage[k])
             /\ \A e : e \in Range(stage[k]) <=>
                         \E i \in 1 .. k : e = events[i] /\ GroupKey(e, paths) = key
             /\ Typed(E) => Sorted(stage[k])
           Reached == {k \in Nat : k <= n => Good(k)}
<1>3. 0 \in Reached
  <2>1. DOMAIN stage[0] = {}
    BY <1>2
  <2>2. Range(stage[0]) = {}
    BY <2>1 DEF Range
  <2>3. Good(0)
    BY <2>1, <2>2 DEF Distinct, Sorted
  <2> HIDE DEF Good
  <2> QED BY <2>3
<1>4. \A k \in Nat : k \in Reached => k + 1 \in Reached
  <2>1. SUFFICES ASSUME NEW k \in Nat, k + 1 <= n, Good(k) PROVE Good(k + 1)
    <3> HIDE DEF Good
    <3> QED OBVIOUS
  <2>2. PICK l \in 1 .. n : l = k + 1 /\ l - 1 = k
    BY <2>1
  <2>3. PICK old \in Seq(E) : old = stage[k]
    BY <1>2, <2>1
  <2>4. PICK new : new = stage[l]
    OBVIOUS
  <2>5. PICK e \in E : e = events[l]
    BY <1>1
  <2>6. new = IF GroupKey(e, paths) = key THEN InsertInOrder(old, e) ELSE old
    BY <1>2, <2>2, <2>3, <2>4, <2>5 DEF AddInOrder
  <2>7. \A i \in 1 .. l : i = l \/ i \in 1 .. k
    BY <2>2
  <2>8. \A i \in 1 .. k : i \in 1 .. l
    BY <2>2
  <2>9. CASE GroupKey(e, paths) # key
    <3>1. new = old
      BY <2>6, <2>9
    <3>2. \A x : (\E i \in 1 .. l : x = events[i] /\ GroupKey(x, paths) = key)
                   <=> \E i \in 1 .. k : x = events[i] /\ GroupKey(x, paths) = key
      BY <2>5, <2>7, <2>8, <2>9
    <3>3. stage[k + 1] = stage[k]
      BY <2>2, <2>3, <2>4, <3>1
    <3> QED BY <2>1, <2>2, <3>2, <3>3
  <2>10. CASE GroupKey(e, paths) = key
    <3>1. new = InsertInOrder(old, e)
      BY <2>6, <2>10
    <3>2. e \notin Range(old)
      <4>1. SUFFICES ASSUME NEW i \in 1 .. k, e = events[i] PROVE FALSE
        BY <2>1, <2>3
      <4>2. i \in 1 .. n /\ i # l
        BY <2>2
      <4> QED BY <1>1, <2>5, <4>1, <4>2 DEF Distinct
    <3>3. /\ Range(new) = Range(old) \cup {e} /\ Distinct(new)
          /\ Typed(E) /\ Sorted(old) => Sorted(new)
      BY <2>1, <2>3, <3>1, <3>2, InsertKeeps
    <3>4. \A x : x \in Range(new) <=> \E i \in 1 .. l : x = events[i] /\ GroupKey(x, paths) = key
      <4>1. \A x : x \in Range(old) <=> \E i \in 1 .. k : x = events[i] /\ GroupKey(x, paths) = key
        BY <2>1, <2>3
      <4>2. l \in 1 .. l
        BY <2>2
      <4> QED BY <2>5, <2>7, <2>8, <2>10, <3>3, <4>1, <4>2
    <3>5. Typed(E) => Sorted(new)
      BY <2>1, <2>3, <3>3
    <3>6. stage[k + 1] = new /\ k + 1 = l
      BY <2>2, <2>4
    <3> QED BY <3>3, <3>4, <3>5, <3>6
  <2> HIDE DEF Good
  <2> QED BY <2>9, <2>10
<1>5. Good(n)
  <2>1. n \in Reached
    <3> HIDE DEF Reached
    <3> QED BY <1>3, <1>4, Induction
  <2> HIDE DEF Good
  <2> QED BY <2>1
<1>6. group \in Seq(E)
  BY <1>2
<1>7. \A e : e \in Range(events) <=> \E i \in 1 .. n : e = events[i]
  BY <1>1 DEF Range
<1> QED BY <1>2, <1>5, <1>6, <1>7

LEMMA SortedEqual ==
  ASSUME NEW E, Typed(E), NEW a \in Seq(E), NEW b \in Seq(E), Distinct(a), Distinct(b),
         Sorted(a), Sorted(b), Range(a) = Range(b)
  PROVE  a = b
<1>1. PICK m \in Nat : m = Len(a) /\ DOMAIN a = 1 .. m /\ (\A i \in 1 .. m : a[i] \in E)
                       /\ \A e : e \in Range(a) <=> \E i \in 1 .. m : a[i] = e
  BY SequenceShape
<1>2. PICK n \in Nat : n = Len(b) /\ DOMAIN b = 1 .. n /\ (\A i \in 1 .. n : b[i] \in E)
                       /\ \A e : e \in Range(b) <=> \E i \in 1 .. n : b[i] = e
  BY SequenceShape
<1>3. /\ \A i \in 1 .. m : \E j \in 1 .. n : b[j] = a[i]
      /\ \A j \in 1 .. n : \E i \in 1 .. m : a[i] = b[j]
  BY <1>1, <1>2
<1> DEFINE Eq(k) == \A i \in 1 .. k : a[i] = b[i]
           Same == {k \in Nat : k <= m /\ k <= n => Eq(k)}
<1>4. 0 \in Same
  OBVIOUS
<1>5. \A k \in Nat : k \in Same => k + 1 \in Same
  <2>1. SUFFICES ASSUME NEW k \in Nat, k + 1 <= m, k + 1 <= n, Eq(k) PROVE Eq(k + 1)
    <3> HIDE DEF Eq
    <3> QED OBVIOUS
  <2>2. PICK l \in 1 .. m : l = k + 1 /\ l \in 1 .. n
    BY <2>1
  <2>3. PICK p \in 1 .. n : b[p] = a[l]
    BY <1>3
  <2>4. PICK q \in 1 .. m : a[q] = b[l]
    BY <1>3, <2>2
  <2>5. p >= l /\ q >= l
    <3>1. \A i \in 1 .. k : i \in 1 .. m /\ i \in 1 .. n /\ i # l
      BY <2>1, <2>2
    <3>2. p \notin 1 .. k
      BY <1>1, <2>1, <2>3, <3>1 DEF Distinct
    <3>3. q \notin 1 .. k
      BY <1>2, <2>1, <2>2, <2>4, <3>1 DEF Distinct
    <3> QED BY <2>2, <3>2, <3>3
  <2>6. p = l \/ Before(b[l], a[l])
    BY <1>2, <2>2, <2>3, <2>5 DEF Sorted
  <2>7. q = l \/ Before(a[l], b[l])
    BY <1>1, <2>2, <2>4, <2>5 DEF Sorted
  <2>8. a[l] \in E /\ b[l] \in E
    BY <1>1, <1>2, <2>2
  <2>9. a[l] = b[l]
    BY <2>3, <2>4, <2>6, <2>7, <2>8, BeforeOrders
  <2>10. \A i \in 1 .. k + 1 : i = l \/ i \in 1 .. k
    BY <2>2
  <2> QED BY <2>1, <2>9, <2>10
<1>6. \A k \in Nat : k <= m /\ k <= n => \A i \in 1 .. k : a[i] = b[i]
  <2>1. \A k \in Nat : k \in Same
    <3> HIDE DEF Same
    <3> QED BY <1>4, <1>5, Induction
  <2> QED BY <2>1
<1>7. ~(m < n)
  <2>1. SUFFICES ASSUME m < n PROVE FALSE
    OBVIOUS
  <2>2. m + 1 \in 1 .. n
    BY <2>1
  <2>3. PICK i \in 1 .. m : a[i] = b[m + 1]
    BY <1>3, <2>2
  <2>4. a[i] = b[i] /\ i \in 1 .. n /\ i # m + 1
    BY <1>6, <2>1
  <2> QED BY <1>2, <2>2, <2>3, <2>4 DEF Distinct
<1>8. ~(n < m)
  <2>1. SUFFICES ASSUME n < m PROVE FALSE
    OBVIOUS
  <2>2. n + 1 \in 1 .. m
    BY <2>1
  <2>3. PICK i \in 1 .. n : b[i] = a[n + 1]
    BY <1>3, <2>2
  <2>4. a[i] = b[i] /\ i \in 1 .. m /\ i # n + 1
    BY <1>6, <2>1
  <2> QED BY <1>1, <2>2, <2>3, <2>4 DEF Distinct
<1>9. m = n /\ \A i \in 1 .. m : a[i] = b[i]
  BY <1>6, <1>7, <1>8
<1>10. a = [i \in 1 .. m |-> a[i]] /\ b = [i \in 1 .. n |-> b[i]]
  BY <1>1, <1>2, LenProperties
<1> QED BY <1>9, <1>10

\* The events of a group do not depend on the order in which they arrived.
LEMMA GroupsAgree ==
  ASSUME NEW E, Typed(E), NEW events \in Seq(E), NEW other \in Seq(E),
         Distinct(events), Distinct(other), Range(events) = Range(other), NEW paths, NEW key
  PROVE  OrderedGroup(events, paths, key) = OrderedGroup(other, paths, key)
<1>1. PICK a \in Seq(E) :
        /\ a = OrderedGroup(events, paths, key) /\ Distinct(a) /\ Sorted(a)
        /\ \A e : e \in Range(a) <=> e \in Range(events) /\ GroupKey(e, paths) = key
  BY GroupShape
<1>2. PICK b \in Seq(E) :
        /\ b = OrderedGroup(other, paths, key) /\ Distinct(b) /\ Sorted(b)
        /\ \A e : e \in Range(b) <=> e \in Range(other) /\ GroupKey(e, paths) = key
  BY GroupShape
<1>3. Range(a) = Range(b)
  BY <1>1, <1>2
<1> QED BY <1>1, <1>2, <1>3, SortedEqual


(***************************************************************************)
(* The scan of an ordered rule, the stages that an unordered one takes and *)
(* the matches that are reported, one element at a time.                   *)
(***************************************************************************)
Advance(stages, within, scan, event) ==
  LET matched == Append(scan.matched, event) IN
  IF ~EventMatchesStage(event, stages[Len(matched)]) THEN scan
  ELSE IF Len(matched) < Len(stages) THEN [scan EXCEPT !.matched = matched]
  ELSE [matched |-> << >>,
        matches |-> IF WithinWindow(matched, within)
                    THEN Append(scan.matches, matched) ELSE scan.matches]

Scans(E) == [matched : Seq(E), matches : Seq(Seq(E))]

OrderedScan(stage, E, events, n, stages, within) ==
  /\ stage[0] = [matched |-> << >>, matches |-> << >>]
  /\ \A k \in 1 .. n : stage[k] = Advance(stages, within, stage[k - 1], events[k])
  /\ MatchOrdered(events, stages, within) = stage[n].matches
  /\ \A k \in 0 .. n : stage[k] \in Scans(E)

LEMMA ScanStages ==
  ASSUME NEW E, NEW events, NEW n \in Nat, DOMAIN events = 1 .. n,
         \A i \in 1 .. n : events[i] \in E, NEW stages, NEW within
  PROVE  \E stage : OrderedScan(stage, E, events, n, stages, within)
<1> DEFINE S == Scans(E)
           step == [p \in (1 .. n) \X S |-> Advance(stages, within, p[2], events[p[1]])]
           Folds(iter) == iter = [s \in SUBSET (DOMAIN events) |->
                            IF s = {} THEN [matched |-> << >>, matches |-> << >>]
                            ELSE Advance(stages, within, iter[s \ {Max(s)}], events[Max(s)])]
           fold == CHOOSE iter : Folds(iter)
<1>0. PICK base : base = [matched |-> << >>, matches |-> << >>]
  OBVIOUS
<1>1. MatchOrdered(events, stages, within) = fold[DOMAIN events].matches
  BY DEF MatchOrdered, FoldLeft, MapThenFoldSet, Advance
<1>2. base \in S
  BY <1>0 DEF Scans
<1>3. step \in Steps(n, S)
  <2>1. \A scan \in Scans(E), i \in 1 .. n : Advance(stages, within, scan, events[i]) \in Scans(E)
    <3>1. SUFFICES ASSUME NEW scan \in Scans(E), NEW i \in 1 .. n
                   PROVE  Advance(stages, within, scan, events[i]) \in Scans(E)
      OBVIOUS
    <3>2. scan.matched \in Seq(E) /\ scan.matches \in Seq(Seq(E)) /\ events[i] \in E
      BY DEF Scans
    <3>3. PICK matched \in Seq(E) : matched = Append(scan.matched, events[i])
      <4>1. Append(scan.matched, events[i]) \in Seq(E)
        BY <3>2, AppendProperties
      <4> QED BY <4>1
    <3>4. PICK matches \in Seq(Seq(E)) : matches = Append(scan.matches, matched)
      <4>1. Append(scan.matches, matched) \in Seq(Seq(E))
        BY <3>2, AppendProperties
      <4> QED BY <4>1
    <3>5. PICK empty \in Seq(E) : empty = << >>
      BY EmptySeq
    <3>6. Advance(stages, within, scan, events[i]) =
            IF ~EventMatchesStage(events[i], stages[Len(matched)]) THEN scan
            ELSE IF Len(matched) < Len(stages) THEN [scan EXCEPT !.matched = matched]
            ELSE [matched |-> empty,
                  matches |-> IF WithinWindow(matched, within) THEN matches ELSE scan.matches]
      BY <3>3, <3>4, <3>5 DEF Advance
    <3>7. \A m \in Seq(E), ms \in Seq(Seq(E)) : [matched |-> m, matches |-> ms] \in Scans(E)
      BY DEF Scans
    <3>8. [scan EXCEPT !.matched = matched] = [matched |-> matched, matches |-> scan.matches]
      BY DEF Scans
    <3>9. CASE ~EventMatchesStage(events[i], stages[Len(matched)])
      BY <3>6, <3>9
    <3>10. CASE EventMatchesStage(events[i], stages[Len(matched)]) /\ Len(matched) < Len(stages)
      <4>1. Advance(stages, within, scan, events[i]) = [matched |-> matched, matches |-> scan.matches]
        BY <3>6, <3>8, <3>10
      <4> QED BY <3>2, <3>7, <4>1
    <3>11. CASE EventMatchesStage(events[i], stages[Len(matched)]) /\ ~(Len(matched) < Len(stages))
      <4>1. PICK found \in Seq(Seq(E)) :
              found = IF WithinWindow(matched, within) THEN matches ELSE scan.matches
        BY <3>2
      <4>2. Advance(stages, within, scan, events[i]) = [matched |-> empty, matches |-> found]
        BY <3>6, <3>11, <4>1
      <4> QED BY <3>7, <4>2
    <3> QED BY <3>9, <3>10, <3>11
  <2> QED BY <2>1 DEF Steps
<1>4. PICK iter \in [SUBSET (1 .. n) -> S] : Iterates(iter, n, base, step)
  <2> HIDE DEF step, S
  <2> QED BY <1>2, <1>3, FoldExists
<1>5. \A s \in SUBSET (1 .. n) :
        s # {} => Max(s) \in 1 .. n /\ s \ {Max(s)} \in SUBSET (1 .. n)
  BY MaxOfSome
<1>6. Folds(iter)
  <2>1. \A s \in SUBSET (1 .. n) : iter[s] =
               IF s = {} THEN [matched |-> << >>, matches |-> << >>] ELSE Advance(stages, within, iter[s \ {Max(s)}], events[Max(s)])
    <3>1. SUFFICES ASSUME NEW s \in SUBSET (1 .. n), s # {}
                   PROVE  iter[s] = Advance(stages, within, iter[s \ {Max(s)}], events[Max(s)])
      BY <1>0, <1>4 DEF Iterates
    <3>2. PICK m \in 1 .. n, old \in S : m = Max(s) /\ old = iter[s \ {Max(s)}]
      BY <1>4, <1>5, <3>1
    <3>3. iter[s] = step[<<m, old>>]
      BY <1>4, <3>1, <3>2 DEF Iterates
    <3>4. step[<<m, old>>] = Advance(stages, within, old, events[m])
      OBVIOUS
    <3> QED BY <3>2, <3>3, <3>4
  <2>2. iter = [s \in SUBSET (1 .. n) |-> iter[s]]
    OBVIOUS
  <2> HIDE DEF step
  <2> QED BY <2>1, <2>2
<1>7. PICK f : f = fold /\ Folds(f)
  <2> HIDE DEF Folds
  <2> QED BY <1>6
<1>8. f[{}] = [matched |-> << >>, matches |-> << >>] /\ \A s \in SUBSET (1 .. n) :
        s # {} => f[s] = Advance(stages, within, f[s \ {Max(s)}], events[Max(s)])
  BY <1>7
<1>9. IteratesIn(f, n, S, base, step)
  <2> HIDE DEF S
  <2> QED BY <1>0, <1>5, <1>8 DEF IteratesIn
<1>10. PICK stage : StagesOf(stage, n, S, base, step) /\ f[1 .. n] = stage[n]
  <2> HIDE DEF S, step
  <2> QED BY <1>2, <1>3, <1>9, FoldStages
<1>11. \A k \in 1 .. n : stage[k] = Advance(stages, within, stage[k - 1], events[k])
  <2>1. \A k \in 1 .. n : stage[k - 1] \in S
    <3> HIDE DEF S
    <3> QED BY <1>10 DEF StagesOf
  <2> HIDE DEF S
  <2> QED BY <1>10, <2>1 DEF StagesOf
<1>12. \A k \in 0 .. n : stage[k] \in S
  <2> HIDE DEF S
  <2> QED BY <1>10 DEF StagesOf
<1>13. stage[0] = [matched |-> << >>, matches |-> << >>]
  BY <1>0, <1>10 DEF StagesOf
<1> HIDE DEF fold
<1> QED BY <1>1, <1>7, <1>10, <1>11, <1>12, <1>13 DEF OrderedScan

Take(scan, stage) ==
  TakeNth(scan, SelectInSeq(scan.left, LAMBDA event : EventMatchesStage(event, stage)))

Takings(E) == [left : Seq(E), matched : Seq(E), failed : BOOLEAN]

\* A sequence from which the element at position i is removed, and what it holds.
RemovedAt(new, s, i) == i \in 1 .. Len(s) /\ new = RemoveAt(s, i)

Shortened(new, s, i) ==
  /\ Len(new) = Len(s) - 1
  /\ \A j \in 1 .. Len(s) - 1 : new[j] = IF j < i THEN s[j] ELSE s[j + 1]

LEMMA RemoveShape ==
  ASSUME NEW E, NEW s \in Seq(E), NEW i, NEW new, RemovedAt(new, s, i)
  PROVE  new \in Seq(E) /\ Shortened(new, s, i)
<1>0. i \in 1 .. Len(s) /\ new = RemoveAt(s, i)
  BY DEF RemovedAt
<1>1. PICK n \in Nat : n = Len(s) /\ n >= 1 /\ i \in 1 .. n
  BY <1>0, LenProperties
<1>2. PICK front : front = SubSeq(s, 1, i - 1)
  OBVIOUS
<1>3. PICK back : back = SubSeq(s, i + 1, n)
  OBVIOUS
<1>4. /\ front \in Seq(E) /\ Len(front) = i - 1
      /\ \A j \in 1 .. i - 1 : front[j] = s[j]
  <2>1. 1 \in 1 .. n + 1 /\ i - 1 \in 0 .. n
    BY <1>1
  <2>2. /\ front \in Seq(E) /\ Len(front) = IF 1 <= i - 1 THEN ((i - 1) - 1) + 1 ELSE 0
        /\ \A j \in 1 .. ((i - 1) - 1) + 1 : front[j] = s[(1 + j) - 1]
    BY <1>1, <1>2, <2>1, PieceShape
  <2>3. i \in Nat /\ i >= 1
    BY <1>1
  <2> QED BY <2>2, <2>3
<1>5. /\ back \in Seq(E) /\ Len(back) = n - i
      /\ \A j \in 1 .. n - i : back[j] = s[i + j]
  <2>1. i + 1 \in 1 .. n + 1 /\ n \in 0 .. n
    BY <1>1
  <2>2. /\ back \in Seq(E) /\ Len(back) = IF i + 1 <= n THEN (n - (i + 1)) + 1 ELSE 0
        /\ \A j \in 1 .. (n - (i + 1)) + 1 : back[j] = s[((i + 1) + j) - 1]
    BY <1>1, <1>3, <2>1, PieceShape
  <2>3. i \in Nat /\ i >= 1 /\ i <= n
    BY <1>1
  <2>4. \A j \in 1 .. n - i : ((i + 1) + j) - 1 = i + j /\ j \in 1 .. (n - (i + 1)) + 1
    BY <2>3
  <2>5. Len(back) = n - i
    BY <1>1, <2>2, <2>3
  <2>6. \A j \in 1 .. n - i : back[j] = s[i + j]
    BY <2>2, <2>4
  <2> QED BY <2>2, <2>5, <2>6
<1>6. new = front \o back
  BY <1>0, <1>1, <1>2, <1>3 DEF RemoveAt
<1>7. /\ new \in Seq(E) /\ Len(new) = n - 1
      /\ \A j \in 1 .. n - 1 : new[j] = IF j <= i - 1 THEN front[j] ELSE back[j - (i - 1)]
  <2>1. front \in Seq(E) /\ back \in Seq(E) /\ Len(front) = i - 1 /\ Len(back) = n - i
    BY <1>4, <1>5
  <2>2. Joint(new, front, back, E)
    BY <1>6, <2>1, JoinIsJoint
  <2>3. (i - 1) + (n - i) = n - 1
    BY <1>1
  <2> QED BY <2>1, <2>2, <2>3 DEF Joint
<1>8. i \in Nat /\ i >= 1 /\ i <= n
  BY <1>1
<1>9. ASSUME NEW j \in 1 .. n - 1 PROVE new[j] = IF j < i THEN s[j] ELSE s[j + 1]
  <2>1. CASE j < i
    <3>1. j <= i - 1 /\ j \in 1 .. i - 1
      BY <1>8, <2>1
    <3>2. new[j] = front[j] /\ front[j] = s[j]
      BY <1>4, <1>7, <3>1
    <3> QED BY <2>1, <3>2
  <2>2. CASE ~(j < i)
    <3>1. ~(j <= i - 1) /\ j - (i - 1) \in 1 .. n - i /\ i + (j - (i - 1)) = j + 1
      BY <1>1, <1>8, <2>2
    <3>2. new[j] = back[j - (i - 1)]
      BY <1>7, <3>1
    <3>3. back[j - (i - 1)] = s[i + (j - (i - 1))]
      BY <1>5, <3>1
    <3> QED BY <2>2, <3>1, <3>2, <3>3
  <2> QED BY <2>1, <2>2
<1> QED BY <1>1, <1>7, <1>9 DEF Shortened

StageTaken(new, scan, stage) ==
  \/ /\ new = [scan EXCEPT !.failed = TRUE]
     /\ \A i \in 1 .. Len(scan.left) : ~EventMatchesStage(scan.left[i], stage)
  \/ \E i \in 1 .. Len(scan.left) :
       /\ EventMatchesStage(scan.left[i], stage)
       /\ new = [left |-> RemoveAt(scan.left, i), failed |-> scan.failed,
                 matched |-> Append(scan.matched, scan.left[i])]

LEMMA TakeShape ==
  ASSUME NEW E, NEW scan \in Takings(E), NEW stage, NEW new, new = Take(scan, stage)
  PROVE  new \in Takings(E) /\ StageTaken(new, scan, stage)
<1>1. PICK left \in Seq(E) : left = scan.left
  BY DEF Takings
<1>2. PICK n \in Nat : n = Len(left) /\ \A i \in 1 .. n : left[i] \in E
  BY SequenceShape
<1>3. PICK I \in SUBSET (1 .. n) : I = {j \in 1 .. n : EventMatchesStage(left[j], stage)}
  OBVIOUS
<1>4. PICK i : i = IF I # {} THEN Min(I) ELSE 0
  OBVIOUS
<1>5. new = IF i = 0 THEN [scan EXCEPT !.failed = TRUE]
            ELSE [scan EXCEPT !.left = RemoveAt(left, i), !.matched = Append(scan.matched, left[i])]
  BY <1>1, <1>2, <1>3, <1>4 DEF Take, TakeNth, SelectInSeq
<1>6. i \in 0 .. n /\ (i = 0 => I = {}) /\ (I # {} => i \in I) /\ (I = {} => i = 0)
  BY <1>3, <1>4, FirstOfSome
<1>7. CASE i = 0
  <2>1. new = [scan EXCEPT !.failed = TRUE]
    BY <1>5, <1>7
  <2>2. \A j \in 1 .. n : ~EventMatchesStage(left[j], stage)
    BY <1>3, <1>6, <1>7
  <2>3. new \in Takings(E)
    BY <2>1 DEF Takings
  <2> QED BY <1>1, <1>2, <2>1, <2>2, <2>3 DEF StageTaken
<1>8. CASE i # 0
  <2>1. i \in 1 .. n /\ EventMatchesStage(left[i], stage)
    BY <1>3, <1>6, <1>8
  <2>2. new = [left |-> RemoveAt(left, i), failed |-> scan.failed,
               matched |-> Append(scan.matched, left[i])]
    BY <1>5, <1>8 DEF Takings
  <2>3. RemoveAt(left, i) \in Seq(E)
    <3>1. RemovedAt(RemoveAt(left, i), left, i)
      BY <1>2, <2>1 DEF RemovedAt
    <3> QED BY <3>1, RemoveShape
  <2>4. Append(scan.matched, left[i]) \in Seq(E) /\ scan.failed \in BOOLEAN
    BY <1>2, <2>1 DEF Takings
  <2>5. new \in Takings(E)
    BY <2>2, <2>3, <2>4 DEF Takings
  <2> QED BY <1>1, <1>2, <2>1, <2>2, <2>5 DEF StageTaken
<1> QED BY <1>7, <1>8

Takes(stage, E, events, n, stages) ==
  /\ stage[0] = [left |-> events, matched |-> << >>, failed |-> FALSE]
  /\ \A k \in 1 .. n : stage[k] = Take(stage[k - 1], stages[k])
  /\ TakeStages(events, stages) = stage[n]
  /\ \A k \in 0 .. n : stage[k] \in Takings(E)

LEMMA TakeStagesStages ==
  ASSUME NEW E, NEW events \in Seq(E), NEW stages, NEW n \in Nat, DOMAIN stages = 1 .. n
  PROVE  \E stage : Takes(stage, E, events, n, stages)
<1> DEFINE S == Takings(E)
           step == [p \in (1 .. n) \X S |-> Take(p[2], stages[p[1]])]
           Folds(iter) == iter = [s \in SUBSET (DOMAIN stages) |->
                            IF s = {} THEN [left |-> events, matched |-> << >>, failed |-> FALSE]
                            ELSE Take(iter[s \ {Max(s)}], stages[Max(s)])]
           fold == CHOOSE iter : Folds(iter)
<1>0. PICK base : base = [left |-> events, matched |-> << >>, failed |-> FALSE]
  OBVIOUS
<1>1. TakeStages(events, stages) = fold[DOMAIN stages]
  BY DEF TakeStages, FoldLeft, MapThenFoldSet, Take
<1>2. base \in S
  BY <1>0 DEF Takings
<1>3. step \in Steps(n, S)
  <2>1. \A scan \in Takings(E), i \in 1 .. n : Take(scan, stages[i]) \in Takings(E)
    BY TakeShape
  <2> QED BY <2>1 DEF Steps
<1>4. PICK iter \in [SUBSET (1 .. n) -> S] : Iterates(iter, n, base, step)
  <2> HIDE DEF step, S
  <2> QED BY <1>2, <1>3, FoldExists
<1>5. \A s \in SUBSET (1 .. n) :
        s # {} => Max(s) \in 1 .. n /\ s \ {Max(s)} \in SUBSET (1 .. n)
  BY MaxOfSome
<1>6. Folds(iter)
  <2>1. \A s \in SUBSET (1 .. n) : iter[s] =
               IF s = {} THEN [left |-> events, matched |-> << >>, failed |-> FALSE] ELSE Take(iter[s \ {Max(s)}], stages[Max(s)])
    <3>1. SUFFICES ASSUME NEW s \in SUBSET (1 .. n), s # {}
                   PROVE  iter[s] = Take(iter[s \ {Max(s)}], stages[Max(s)])
      BY <1>0, <1>4 DEF Iterates
    <3>2. PICK m \in 1 .. n, old \in S : m = Max(s) /\ old = iter[s \ {Max(s)}]
      BY <1>4, <1>5, <3>1
    <3>3. iter[s] = step[<<m, old>>]
      BY <1>4, <3>1, <3>2 DEF Iterates
    <3>4. step[<<m, old>>] = Take(old, stages[m])
      OBVIOUS
    <3> QED BY <3>2, <3>3, <3>4
  <2>2. iter = [s \in SUBSET (1 .. n) |-> iter[s]]
    OBVIOUS
  <2> HIDE DEF step
  <2> QED BY <2>1, <2>2
<1>7. PICK f : f = fold /\ Folds(f)
  <2> HIDE DEF Folds
  <2> QED BY <1>6
<1>8. f[{}] = [left |-> events, matched |-> << >>, failed |-> FALSE] /\ \A s \in SUBSET (1 .. n) :
        s # {} => f[s] = Take(f[s \ {Max(s)}], stages[Max(s)])
  BY <1>7
<1>9. IteratesIn(f, n, S, base, step)
  <2> HIDE DEF S
  <2> QED BY <1>0, <1>5, <1>8 DEF IteratesIn
<1>10. PICK stage : StagesOf(stage, n, S, base, step) /\ f[1 .. n] = stage[n]
  <2> HIDE DEF S, step
  <2> QED BY <1>2, <1>3, <1>9, FoldStages
<1>11. \A k \in 1 .. n : stage[k] = Take(stage[k - 1], stages[k])
  <2>1. \A k \in 1 .. n : stage[k - 1] \in S
    <3> HIDE DEF S
    <3> QED BY <1>10 DEF StagesOf
  <2> HIDE DEF S
  <2> QED BY <1>10, <2>1 DEF StagesOf
<1>12. \A k \in 0 .. n : stage[k] \in S
  <2> HIDE DEF S
  <2> QED BY <1>10 DEF StagesOf
<1>13. stage[0] = [left |-> events, matched |-> << >>, failed |-> FALSE]
  BY <1>0, <1>10 DEF StagesOf
<1> HIDE DEF fold
<1> QED BY <1>1, <1>7, <1>10, <1>11, <1>12, <1>13 DEF Takes


(***************************************************************************)
(* Matches, as assignments of events of a group to the stages of a rule.   *)
(***************************************************************************)
Position(group, event) == CHOOSE p \in DOMAIN group : group[p] = event

\* An assignment to the first stages, among the first k events of the group.
Fills(group, k, stages, matched, ordered) ==
  /\ \A i \in 1 .. Len(matched) : /\ matched[i] \in Range(group)
                                  /\ Position(group, matched[i]) <= k
                                  /\ EventMatchesStage(matched[i], stages[i])
  /\ \A i, j \in 1 .. Len(matched) :
       i < j => IF ordered THEN Position(group, matched[i]) < Position(group, matched[j])
                ELSE matched[i] # matched[j]

Apart(matches) == \A m, n \in Range(matches) : m # n => Range(m) \cap Range(n) = {}

LEMMA Positions ==
  ASSUME NEW E, NEW group \in Seq(E), Distinct(group)
  PROVE  /\ \A p \in 1 .. Len(group) : Position(group, group[p]) = p
         /\ \A e \in Range(group) : /\ Position(group, e) \in 1 .. Len(group)
                                    /\ group[Position(group, e)] = e
<1>1. DOMAIN group = 1 .. Len(group)
  BY SequenceShape
<1>2. \A e \in Range(group) : /\ Position(group, e) \in 1 .. Len(group)
                              /\ group[Position(group, e)] = e
  BY <1>1 DEF Range, Position
<1>3. \A p \in 1 .. Len(group) : group[p] \in Range(group)
  BY <1>1 DEF Range
<1> QED BY <1>1, <1>2, <1>3 DEF Distinct

LEMMA FillsLater ==
  ASSUME NEW E, NEW group \in Seq(E), Distinct(group), NEW k \in Nat, k + 1 <= Len(group),
         NEW matched \in Seq(E), NEW stages, NEW ordered,
         Fills(group, k, stages, matched, ordered)
  PROVE  /\ Fills(group, k + 1, stages, matched, ordered)
         /\ group[k + 1] \notin Range(matched)
<1>1. Len(matched) \in Nat /\ \A e : e \in Range(matched) <=> \E i \in 1 .. Len(matched) : matched[i] = e
  BY SequenceShape
<1>2. k + 1 \in 1 .. Len(group)
  BY SequenceShape
<1>3. Position(group, group[k + 1]) = k + 1
  BY <1>2, Positions
<1>4. \A i \in 1 .. Len(matched) : /\ Position(group, matched[i]) \in Nat
                                   /\ Position(group, matched[i]) <= k
  BY Positions DEF Fills
<1>5. Fills(group, k + 1, stages, matched, ordered)
  BY <1>4 DEF Fills
<1> QED BY <1>1, <1>3, <1>4, <1>5

Extended(new, s, x) == \A y : y \in Range(new) <=> y \in Range(s) \/ y = x

LEMMA AppendedRange ==
  ASSUME NEW F, NEW s \in Seq(F), NEW x \in F, NEW new, new = Append(s, x)
  PROVE  new \in Seq(F) /\ Extended(new, s, x) /\ new # << >>
<1>1. PICK l \in Nat : l = Len(s) /\ DOMAIN s = 1 .. l
  BY SequenceShape
<1>2. /\ new \in Seq(F) /\ Len(new) = l + 1 /\ new[l + 1] = x
      /\ \A i \in 1 .. l : new[i] = s[i]
  BY <1>1, AppendProperties
<1>3. DOMAIN new = 1 .. l + 1
  BY <1>2, LenProperties
<1>4. \A y : y \in Range(new) <=> \E i \in 1 .. l + 1 : new[i] = y
  BY <1>3 DEF Range
<1>5. \A y : y \in Range(s) <=> \E i \in 1 .. l : s[i] = y
  BY <1>1 DEF Range
<1>6. \A i \in 1 .. l + 1 : i = l + 1 \/ i \in 1 .. l
  OBVIOUS
<1>7. l + 1 \in 1 .. l + 1 /\ \A i \in 1 .. l : i \in 1 .. l + 1
  OBVIOUS
<1>8. Extended(new, s, x)
  BY <1>2, <1>4, <1>5, <1>6, <1>7 DEF Extended
<1>9. new # << >>
  BY <1>2
<1> QED BY <1>2, <1>8, <1>9

\* The next event of the group fills the next stage.
FillsWith(group, k, stages, matched, new) ==
  /\ k + 1 <= Len(group)
  /\ Fills(group, k, stages, matched, TRUE)
  /\ EventMatchesStage(group[k + 1], stages[Len(matched) + 1])
  /\ new = Append(matched, group[k + 1])

LEMMA FillsNext ==
  ASSUME NEW E, NEW group \in Seq(E), Distinct(group), NEW k \in Nat,
         NEW matched \in Seq(E), NEW stages, NEW new, FillsWith(group, k, stages, matched, new)
  PROVE  /\ Fills(group, k + 1, stages, new, TRUE)
         /\ new \in Seq(E) /\ Len(new) = Len(matched) + 1
         /\ Extended(new, matched, group[k + 1])
<1>0. /\ k + 1 <= Len(group)
      /\ Fills(group, k, stages, matched, TRUE)
      /\ EventMatchesStage(group[k + 1], stages[Len(matched) + 1])
      /\ new = Append(matched, group[k + 1])
  BY DEF FillsWith
<1>1. PICK l \in Nat : l = Len(matched) /\ DOMAIN matched = 1 .. l
  BY SequenceShape
<1>2. PICK e \in E : e = group[k + 1] /\ e \in Range(group) /\ Position(group, e) = k + 1
  <2>1. k + 1 \in 1 .. Len(group)
    BY <1>0, SequenceShape
  <2>2. group[k + 1] \in E /\ group[k + 1] \in Range(group)
    BY <2>1, SequenceShape
  <2> QED BY <2>1, <2>2, Positions
<1>3. /\ new \in Seq(E) /\ Len(new) = l + 1 /\ new[l + 1] = e
      /\ \A i \in 1 .. l : new[i] = matched[i]
  <2>1. /\ Append(matched, e) \in Seq(E) /\ Len(Append(matched, e)) = Len(matched) + 1
        /\ Append(matched, e)[Len(matched) + 1] = e
        /\ \A i \in 1 .. Len(matched) : Append(matched, e)[i] = matched[i]
    BY AppendProperties
  <2> QED BY <1>0, <1>1, <1>2, <2>1
<1>4. \A i \in 1 .. l + 1 : i = l + 1 \/ i \in 1 .. l
  OBVIOUS
<1>5. \A i \in 1 .. l : Position(group, matched[i]) \in Nat /\ Position(group, matched[i]) <= k
  BY <1>0, <1>1, Positions DEF Fills
<1>6. \A i \in 1 .. l + 1 : /\ new[i] \in Range(group) /\ Position(group, new[i]) <= k + 1
                            /\ EventMatchesStage(new[i], stages[i])
  BY <1>0, <1>1, <1>2, <1>3, <1>4, <1>5 DEF Fills
<1>7. \A i, j \in 1 .. l + 1 : i < j => Position(group, new[i]) < Position(group, new[j])
  <2>1. SUFFICES ASSUME NEW i \in 1 .. l + 1, NEW j \in 1 .. l + 1, i < j
                 PROVE  Position(group, new[i]) < Position(group, new[j])
    OBVIOUS
  <2>2. i \in 1 .. l
    BY <2>1
  <2>3. CASE j = l + 1
    BY <1>2, <1>3, <1>5, <2>2, <2>3
  <2>4. CASE j \in 1 .. l
    BY <1>0, <1>1, <1>3, <2>1, <2>2, <2>4 DEF Fills
  <2> QED BY <1>4, <2>3, <2>4
<1>8. Extended(new, matched, e)
  BY <1>0, <1>2, AppendedRange
<1> QED BY <1>1, <1>2, <1>3, <1>6, <1>7, <1>8 DEF Fills

\* No assignment of growing positions among the first k events fills more stages.
Climbs(group, stages, at, j) ==
  /\ \A i \in 1 .. j : EventMatchesStage(group[at[i]], stages[i])
  /\ \A h, i \in 1 .. j : h < i => at[h] < at[i]

Greedy(group, k, stages, l) ==
  \A j \in Nat : \A at \in [1 .. j -> 1 .. k] : Climbs(group, stages, at, j) => j <= l

LEMMA GreedyNext ==
  ASSUME NEW group, NEW k \in Nat, NEW stages, NEW l \in Nat, Greedy(group, k, stages, l),
         NEW next \in Nat, next >= l,
         EventMatchesStage(group[k + 1], stages[l + 1]) => next >= l + 1
  PROVE  Greedy(group, k + 1, stages, next)
<1>1. SUFFICES ASSUME NEW j \in Nat, NEW at \in [1 .. j -> 1 .. k + 1],
                      Climbs(group, stages, at, j), j > next
               PROVE  FALSE
  BY DEF Greedy
<1>2. j \in 1 .. j /\ at[j] \in 1 .. k + 1
  BY <1>1
<1>3. \A i \in 1 .. j - 1 : i \in 1 .. j /\ at[i] < at[j] /\ at[i] \in 1 .. k + 1
  BY <1>1, <1>2 DEF Climbs
<1>3a. \A i \in 1 .. j - 1 : at[i] \in 1 .. k
  BY <1>2, <1>3
<1>4. PICK before \in [1 .. j - 1 -> 1 .. k] : before = [i \in 1 .. j - 1 |-> at[i]]
  BY <1>3a
<1>5. Climbs(group, stages, before, j - 1)
  BY <1>1, <1>3, <1>4 DEF Climbs
<1>6. PICK less \in Nat : less = j - 1 /\ less <= l
  <2>1. PICK less \in Nat : less = j - 1
    BY <1>1
  <2>2. before \in [1 .. less -> 1 .. k] /\ Climbs(group, stages, before, less)
    BY <1>4, <1>5, <2>1
  <2> QED BY <2>1, <2>2 DEF Greedy
<1>7. j = l + 1
  BY <1>1, <1>6
<1>8. CASE at[j] = k + 1
  BY <1>1, <1>2, <1>7, <1>8 DEF Climbs
<1>9. CASE at[j] # k + 1
  <2>1. \A i \in 1 .. j : at[i] \in 1 .. k
    <3>1. PICK last \in 1 .. k + 1 : last = at[j] /\ last # k + 1
      BY <1>2, <1>9
    <3>3. at[j] \in 1 .. k
      BY <3>1
    <3>2. \A i \in 1 .. j : i = j \/ i \in 1 .. j - 1
      OBVIOUS
    <3> QED BY <1>3a, <3>2, <3>3
  <2>2. at \in [1 .. j -> 1 .. k]
    BY <2>1
  <2>3. j <= l
    BY <1>1, <2>2 DEF Greedy
  <2> QED BY <1>7, <2>3
<1> QED BY <1>8, <1>9


\* What the scan of an ordered rule has found among the first k events.
ScanFound(group, k, stages, within, scan) ==
  /\ Len(scan.matched) < Len(stages)
  /\ Fills(group, k, stages, scan.matched, TRUE)
  /\ \A m \in Range(scan.matches) :
       /\ Len(m) = Len(stages) /\ Fills(group, k, stages, m, TRUE) /\ WithinWindow(m, within)
       /\ Range(m) \cap Range(scan.matched) = {}
  /\ Apart(scan.matches)
  /\ within = Nil /\ scan.matches = << >> => Greedy(group, k, stages, Len(scan.matched))

LEMMA RangeIn ==
  ASSUME NEW F, NEW s \in Seq(F), NEW x \in Range(s)
  PROVE  x \in F
BY SequenceShape

LEMMA EmptyRange ==
  Range(<< >>) = {} /\ Len(<< >>) = 0 /\ \A F : << >> \in Seq(F)
BY DEF Range

LEMMA AdvanceKeeps ==
  ASSUME NEW E, NEW group \in Seq(E), Distinct(group), NEW k \in Nat, k + 1 <= Len(group),
         NEW stages, Len(stages) \in Nat, Len(stages) >= 1, NEW within,
         NEW scan \in Scans(E), ScanFound(group, k, stages, within, scan),
         NEW new, new = Advance(stages, within, scan, group[k + 1])
  PROVE  ScanFound(group, k + 1, stages, within, new)
<1>1. PICK e \in E : e = group[k + 1]
  <2>1. k + 1 \in 1 .. Len(group)
    BY SequenceShape
  <2> QED BY <2>1, SequenceShape
<1>2. PICK old \in Seq(E) : old = scan.matched
  BY DEF Scans
<1>3. PICK past \in Seq(Seq(E)) : past = scan.matches
  BY DEF Scans
<1>4. PICK l \in Nat : l = Len(old)
  BY <1>2, SequenceShape
<1>5. PICK matched \in Seq(E) : matched = Append(old, e) /\ Len(matched) = l + 1
  <2>1. Append(old, e) \in Seq(E) /\ Len(Append(old, e)) = l + 1
    BY <1>4, AppendProperties
  <2> QED BY <2>1
<1>6. /\ l < Len(stages)
      /\ Fills(group, k, stages, old, TRUE)
      /\ \A m \in Range(past) :
           /\ Len(m) = Len(stages) /\ Fills(group, k, stages, m, TRUE) /\ WithinWindow(m, within)
           /\ Range(m) \cap Range(old) = {}
      /\ Apart(past)
      /\ within = Nil /\ past = << >> => Greedy(group, k, stages, l)
  BY <1>2, <1>3, <1>4 DEF ScanFound
<1>7. \A m \in Range(past) : m \in Seq(E)
  BY <1>3, RangeIn
<1>8. \A m \in Range(past) : Fills(group, k + 1, stages, m, TRUE) /\ e \notin Range(m)
  BY <1>1, <1>6, <1>7, FillsLater
<1>9. new = IF ~EventMatchesStage(e, stages[l + 1]) THEN scan
            ELSE IF l + 1 < Len(stages) THEN [scan EXCEPT !.matched = matched]
            ELSE [matched |-> << >>,
                  matches |-> IF WithinWindow(matched, within) THEN Append(past, matched)
                              ELSE past]
  BY <1>1, <1>2, <1>3, <1>5 DEF Advance
<1>10. CASE ~EventMatchesStage(e, stages[l + 1])
  <2>1. new = scan
    BY <1>9, <1>10
  <2>2. Fills(group, k + 1, stages, old, TRUE)
    BY <1>6, FillsLater
  <2>3. within = Nil /\ past = << >> => Greedy(group, k + 1, stages, l)
    BY <1>1, <1>6, <1>10, GreedyNext
  <2> QED BY <1>2, <1>3, <1>4, <1>6, <1>8, <2>1, <2>2, <2>3 DEF ScanFound
<1>11. CASE EventMatchesStage(e, stages[l + 1])
  <2>1. /\ Fills(group, k + 1, stages, matched, TRUE)
        /\ Extended(matched, old, e)
    <3>1. EventMatchesStage(group[k + 1], stages[Len(old) + 1])
      BY <1>1, <1>4, <1>11
    <3>2. matched = Append(old, group[k + 1])
      BY <1>1, <1>5
    <3>3. Fills(group, k, stages, old, TRUE)
      BY <1>6
    <3>4. Fills(group, k + 1, stages, matched, TRUE) /\ Extended(matched, old, group[k + 1])
      <4>1. FillsWith(group, k, stages, old, matched)
        BY <3>1, <3>2, <3>3 DEF FillsWith
      <4> QED BY <4>1, FillsNext
    <3> QED BY <1>1, <3>4
  <2>2. \A m \in Range(past) : Range(m) \cap Range(matched) = {}
    BY <1>6, <1>8, <2>1 DEF Extended
  <2>3. CASE l + 1 < Len(stages)
    <3>1. new.matched = matched /\ new.matches = past
      BY <1>3, <1>9, <1>11, <2>3 DEF Scans
    <3>2. within = Nil /\ past = << >> => Greedy(group, k + 1, stages, l + 1)
      <4>1. l + 1 \in Nat
        OBVIOUS
      <4> QED BY <1>6, <4>1, GreedyNext
    <3> QED BY <1>5, <1>6, <1>8, <2>1, <2>2, <2>3, <3>1, <3>2 DEF ScanFound
  <2>4. CASE ~(l + 1 < Len(stages))
    <3>1. l + 1 = Len(stages)
      BY <1>6, <2>4
    <3>2. new.matched = << >>
      BY <1>9, <1>11, <2>4
    <3>3. /\ Len(new.matched) < Len(stages) /\ Range(new.matched) = {}
          /\ Fills(group, k + 1, stages, new.matched, TRUE)
      BY <3>2, EmptyRange DEF Fills
    <3>4. CASE ~WithinWindow(matched, within)
      <4>1. new.matches = past
        BY <1>9, <1>11, <2>4, <3>4
      <4>2. within # Nil
        BY <3>4 DEF WithinWindow
      <4> QED BY <1>6, <1>8, <3>3, <4>1, <4>2 DEF ScanFound
    <3>5. CASE WithinWindow(matched, within)
      <4>1. new.matches = Append(past, matched)
        BY <1>9, <1>11, <2>4, <3>5
      <4>2. PICK now : now = Append(past, matched)
        OBVIOUS
      <4>3. Extended(now, past, matched) /\ now # << >>
        BY <4>2, AppendedRange
      <4>4. Apart(now)
        BY <1>6, <2>2, <4>3 DEF Apart, Extended
      <4>5. \A m \in Range(now) :
              Len(m) = Len(stages) /\ Fills(group, k + 1, stages, m, TRUE) /\ WithinWindow(m, within)
        BY <1>5, <1>6, <1>8, <2>1, <3>1, <3>5, <4>3 DEF Extended
      <4> QED BY <3>3, <4>1, <4>2, <4>3, <4>4, <4>5 DEF ScanFound
    <3> QED BY <3>4, <3>5
  <2> QED BY <2>3, <2>4
<1> QED BY <1>10, <1>11

\* The matches of an ordered rule in one group.
LEMMA OrderedMatches ==
  ASSUME NEW E, NEW group \in Seq(E), Distinct(group),
         NEW stages, Len(stages) \in Nat, Len(stages) >= 1, NEW within,
         NEW found, found = MatchOrdered(group, stages, within)
  PROVE  /\ found \in Seq(Seq(E)) /\ Apart(found)
         /\ \A m \in Range(found) :
              Len(m) = Len(stages) /\ Fills(group, Len(group), stages, m, TRUE)
                /\ WithinWindow(m, within)
         /\ within = Nil /\ found = << >> =>
              \A at \in [1 .. Len(stages) -> 1 .. Len(group)] :
                ~Climbs(group, stages, at, Len(stages))
<1>1. PICK n \in Nat : n = Len(group) /\ DOMAIN group = 1 .. n /\ \A i \in 1 .. n : group[i] \in E
  BY SequenceShape
<1>2. PICK stage : OrderedScan(stage, E, group, n, stages, within)
  <2>1. DOMAIN group = 1 .. n /\ \A i \in 1 .. n : group[i] \in E
    BY <1>1
  <2> QED BY <2>1, ScanStages
<1>3. /\ stage[0] = [matched |-> << >>, matches |-> << >>]
      /\ \A k \in 1 .. n : stage[k] = Advance(stages, within, stage[k - 1], group[k])
      /\ found = stage[n].matches
      /\ \A k \in 0 .. n : stage[k] \in Scans(E)
  BY <1>2 DEF OrderedScan
<1> DEFINE Reached == {k \in Nat : k <= n => ScanFound(group, k, stages, within, stage[k])}
<1>4. 0 \in Reached
  <2>1. stage[0].matched = << >> /\ stage[0].matches = << >>
    BY <1>3
  <2>2. Greedy(group, 0, stages, 0)
    <3>1. SUFFICES ASSUME NEW j \in Nat, NEW at \in [1 .. j -> 1 .. 0], j > 0 PROVE FALSE
      BY DEF Greedy
    <3>2. j \in 1 .. j
      BY <3>1
    <3>3. at[j] \in 1 .. 0
      BY <3>2
    <3> QED BY <3>3
  <2>3. Fills(group, 0, stages, << >>, TRUE) /\ Apart(<< >>)
    BY EmptyRange DEF Fills, Apart
  <2>4. ScanFound(group, 0, stages, within, stage[0])
    <3>1. Len(stage[0].matched) = 0 /\ Range(stage[0].matches) = {}
      BY <2>1, EmptyRange
    <3>2. Fills(group, 0, stages, stage[0].matched, TRUE) /\ Apart(stage[0].matches)
      BY <2>1, <2>3
    <3>3. \A m : m \notin Range(stage[0].matches)
      BY <3>1
    <3>4. Greedy(group, 0, stages, Len(stage[0].matched)) /\ Len(stage[0].matched) < Len(stages)
      BY <2>2, <3>1
    <3> QED BY <3>2, <3>3, <3>4 DEF ScanFound
  <2> QED BY <2>4
<1>5. \A k \in Nat : k \in Reached => k + 1 \in Reached
  <2>1. SUFFICES ASSUME NEW k \in Nat, k + 1 <= n, ScanFound(group, k, stages, within, stage[k])
                 PROVE  ScanFound(group, k + 1, stages, within, stage[k + 1])
    OBVIOUS
  <2>2. k + 1 \in 1 .. n /\ (k + 1) - 1 = k /\ k \in 0 .. n
    BY <2>1
  <2>3. stage[k + 1] = Advance(stages, within, stage[k], group[k + 1]) /\ stage[k] \in Scans(E)
    BY <1>3, <2>2
  <2> QED BY <1>1, <2>1, <2>3, AdvanceKeeps
<1>6. ScanFound(group, n, stages, within, stage[n])
  <2>1. n \in Reached
    <3> HIDE DEF Reached
    <3> QED BY <1>4, <1>5, Induction
  <2> QED BY <2>1
<1>7. found \in Seq(Seq(E))
  <2>1. stage[n] \in Scans(E)
    BY <1>3
  <2> QED BY <1>3, <2>1 DEF Scans
<1>8. ASSUME within = Nil, found = << >>,
             NEW at \in [1 .. Len(stages) -> 1 .. Len(group)],
             Climbs(group, stages, at, Len(stages))
      PROVE  FALSE
  <2>1. Greedy(group, n, stages, Len(stage[n].matched)) /\ Len(stage[n].matched) < Len(stages)
    BY <1>3, <1>6, <1>8 DEF ScanFound
  <2>2. Len(stage[n].matched) \in Nat
    <3>1. stage[n].matched \in Seq(E)
      BY <1>3 DEF Scans
    <3> QED BY <3>1, SequenceShape
  <2>3. Len(stages) <= Len(stage[n].matched)
    BY <1>1, <1>8, <2>1 DEF Greedy
  <2> QED BY <2>1, <2>2, <2>3
<1> QED BY <1>1, <1>3, <1>6, <1>7, <1>8 DEF ScanFound


LEMMA RemoveKeeps ==
  ASSUME NEW E, NEW s \in Seq(E), Distinct(s), NEW i \in 1 .. Len(s), NEW new, new = RemoveAt(s, i)
  PROVE  /\ Distinct(new)
         /\ \A e : e \in Range(new) <=> e \in Range(s) /\ e # s[i]
<1>1. PICK n \in Nat : n = Len(s) /\ DOMAIN s = 1 .. n
  BY SequenceShape
<1>2. i \in 1 .. n /\ n >= 1 /\ n - 1 \in Nat
  BY <1>1
<1>3. /\ new \in Seq(E) /\ Len(new) = n - 1
      /\ \A j \in 1 .. n - 1 : new[j] = IF j < i THEN s[j] ELSE s[j + 1]
  <2>1. RemovedAt(new, s, i)
    BY DEF RemovedAt
  <2>2. new \in Seq(E) /\ Shortened(new, s, i)
    BY <2>1, RemoveShape
  <2> QED BY <1>1, <2>2 DEF Shortened
<1>4. DOMAIN new = 1 .. n - 1
  BY <1>3, LenProperties
<1>5. \A j, k \in 1 .. n : s[j] = s[k] => j = k
  BY <1>1 DEF Distinct
<1>6. \A j \in 1 .. n - 1 : /\ j < i => j \in 1 .. n /\ new[j] = s[j]
                            /\ j >= i => j + 1 \in 1 .. n /\ new[j] = s[j + 1]
  BY <1>2, <1>3
<1>7. Distinct(new)
  <2>1. SUFFICES ASSUME NEW j \in 1 .. n - 1, NEW k \in 1 .. n - 1, new[j] = new[k], j < k
                 PROVE  FALSE
    BY <1>4 DEF Distinct
  <2> QED BY <1>2, <1>5, <1>6, <2>1
<1>8. \A e : e \in Range(new) <=> \E j \in 1 .. n - 1 : new[j] = e
  BY <1>4 DEF Range
<1>9. \A e : e \in Range(s) <=> \E j \in 1 .. n : s[j] = e
  BY <1>1 DEF Range
<1>10. \A j \in 1 .. n - 1 : new[j] \in Range(s) /\ new[j] # s[i]
  BY <1>2, <1>5, <1>6, <1>9
<1>11. ASSUME NEW j \in 1 .. n, j # i PROVE s[j] \in Range(new)
  <2>1. CASE j < i
    BY <1>2, <1>3, <1>8, <2>1
  <2>2. CASE j > i
    <3>1. j - 1 \in 1 .. n - 1 /\ ~(j - 1 < i) /\ (j - 1) + 1 = j
      BY <1>2, <2>2
    <3> QED BY <1>3, <1>8, <3>1
  <2> QED BY <1>2, <1>11, <2>1, <2>2
<1>12. \A e : e \in Range(new) => e \in Range(s) /\ e # s[i]
  BY <1>8, <1>10
<1>13. \A e : e \in Range(s) /\ e # s[i] => e \in Range(new)
  BY <1>9, <1>11
<1> QED BY <1>7, <1>12, <1>13

\* No two stages may match one event.
Differ(stages) ==
  \A i, j \in DOMAIN stages : i # j => stages[i].event_type # stages[j].event_type

\* No event of the group matches the stage.
Missed(group, stages, i) == \A e \in Range(group) : ~EventMatchesStage(e, stages[i])

\* What the first k stages of an unordered rule have taken.
Taken(group, k, stages, matched, left) ==
  /\ Len(matched) = k
  /\ \A i \in 1 .. k : /\ matched[i] \in Range(group) /\ matched[i] \notin Range(left)
                       /\ EventMatchesStage(matched[i], stages[i])
  /\ \A i, j \in 1 .. k : i < j => matched[i] # matched[j]
  /\ \A e \in Range(group) : e \in Range(left) \/ \E i \in 1 .. k : matched[i] = e

TakingFound(group, k, stages, scan) ==
  /\ Distinct(scan.left)
  /\ \A e \in Range(scan.left) : e \in Range(group)
  /\ IF scan.failed THEN Differ(stages) => \E i \in 1 .. k : Missed(group, stages, i)
     ELSE Taken(group, k, stages, scan.matched, scan.left)

LEMMA TakeKeeps ==
  ASSUME NEW E, NEW group \in Seq(E), NEW stages, NEW n \in Nat, DOMAIN stages = 1 .. n,
         NEW k \in Nat, k + 1 <= n,
         NEW scan \in Takings(E), TakingFound(group, k, stages, scan),
         NEW new, new = Take(scan, stages[k + 1])
  PROVE  TakingFound(group, k + 1, stages, new)
<1>1. PICK l \in 1 .. n : l = k + 1
  OBVIOUS
<1>2. PICK left \in Seq(E) : left = scan.left
  BY DEF Takings
<1>3. PICK matched \in Seq(E) : matched = scan.matched
  BY DEF Takings
<1>4. PICK m \in Nat : /\ m = Len(left) /\ DOMAIN left = 1 .. m
                       /\ \A i \in 1 .. m : left[i] \in E
                       /\ \A e : e \in Range(left) <=> \E i \in 1 .. m : left[i] = e
  BY SequenceShape
<1>5. /\ Distinct(left)
      /\ \A e \in Range(left) : e \in Range(group)
  BY <1>2 DEF TakingFound
<1>6. scan.failed => (Differ(stages) => \E i \in 1 .. k + 1 : Missed(group, stages, i))
  <2>1. \A i \in 1 .. k : i \in 1 .. k + 1
    OBVIOUS
  <2> QED BY <2>1 DEF TakingFound
<1>7. \A i \in 1 .. k + 1 : i = k + 1 \/ i \in 1 .. k
  OBVIOUS
<1>8. CASE /\ new = [scan EXCEPT !.failed = TRUE]
           /\ \A i \in 1 .. Len(left) : ~EventMatchesStage(left[i], stages[k + 1])
  <2>1. new.left = left /\ new.failed
    BY <1>2, <1>8 DEF Takings
  <2>2. ASSUME ~scan.failed, Differ(stages) PROVE Missed(group, stages, l)
    <3>1. SUFFICES ASSUME NEW e \in Range(group), EventMatchesStage(e, stages[l]) PROVE FALSE
      BY DEF Missed
    <3>2. Taken(group, k, stages, matched, left)
      BY <1>2, <1>3, <2>2 DEF TakingFound
    <3>3. e \notin Range(left)
      BY <1>1, <1>4, <1>8, <3>1
    <3>4. PICK i \in 1 .. k : matched[i] = e
      BY <3>2, <3>3 DEF Taken
    <3>5. EventMatchesStage(e, stages[i])
      BY <3>2, <3>4 DEF Taken
    <3>6. i \in DOMAIN stages /\ l \in DOMAIN stages /\ i # l
      BY <1>1
    <3>7. stages[i].event_type # stages[l].event_type
      BY <2>2, <3>6 DEF Differ
    <3> QED BY <3>1, <3>5, <3>7 DEF EventMatchesStage
  <2>3. l \in 1 .. k + 1
    BY <1>1
  <2>4. Differ(stages) => \E i \in 1 .. k + 1 : Missed(group, stages, i)
    BY <1>6, <2>2, <2>3
  <2> QED BY <1>5, <2>1, <2>4 DEF TakingFound
<1>9. CASE \E i \in 1 .. Len(left) :
             /\ EventMatchesStage(left[i], stages[k + 1])
             /\ new = [left |-> RemoveAt(left, i), failed |-> scan.failed,
                       matched |-> Append(matched, left[i])]
  <2>1. PICK i \in 1 .. m :
          /\ EventMatchesStage(left[i], stages[k + 1])
          /\ new = [left |-> RemoveAt(left, i), failed |-> scan.failed,
                    matched |-> Append(matched, left[i])]
    BY <1>4, <1>9
  <2>2. PICK e \in E : e = left[i]
    BY <1>4
  <2>3. PICK rest : rest = RemoveAt(left, i)
    OBVIOUS
  <2>4. PICK more : more = Append(matched, e)
    OBVIOUS
  <2>5. new.left = rest /\ new.failed = scan.failed /\ new.matched = more
    BY <2>1, <2>2, <2>3, <2>4
  <2>6. Distinct(rest) /\ \A x : x \in Range(rest) <=> x \in Range(left) /\ x # e
    <3>1. i \in 1 .. Len(left)
      BY <1>4
    <3> QED BY <1>5, <2>2, <2>3, <3>1, RemoveKeeps
  <2>7. e \in Range(left) /\ e \in Range(group)
    BY <1>4, <1>5, <2>2
  <2>8. ASSUME ~scan.failed PROVE Taken(group, k + 1, stages, more, rest)
    <3>1. Taken(group, k, stages, matched, left)
      BY <1>2, <1>3, <2>8 DEF TakingFound
    <3>2. Len(matched) = k
      BY <3>1 DEF Taken
    <3>3. Len(more) = k + 1 /\ more[k + 1] = e /\ \A j \in 1 .. k : more[j] = matched[j]
      BY <2>4, <3>2, AppendProperties
    <3>4. EventMatchesStage(e, stages[k + 1])
      BY <2>1, <2>2
    <3>5. \A j \in 1 .. k : /\ matched[j] \in Range(group) /\ matched[j] \notin Range(left)
                            /\ EventMatchesStage(matched[j], stages[j]) /\ matched[j] # e
      BY <2>7, <3>1 DEF Taken
    <3>6. \A j \in 1 .. k + 1 : /\ more[j] \in Range(group) /\ more[j] \notin Range(rest)
                                /\ EventMatchesStage(more[j], stages[j])
      BY <1>7, <2>6, <2>7, <3>3, <3>4, <3>5
    <3>7. \A h, j \in 1 .. k + 1 : h < j => more[h] # more[j]
      <4>1. SUFFICES ASSUME NEW h \in 1 .. k + 1, NEW j \in 1 .. k + 1, h < j
                     PROVE  more[h] # more[j]
        OBVIOUS
      <4>2. h \in 1 .. k
        BY <4>1
      <4>3. CASE j = k + 1
        BY <3>3, <3>5, <4>2, <4>3
      <4>4. CASE j \in 1 .. k
        BY <3>1, <3>3, <4>1, <4>2, <4>4 DEF Taken
      <4> QED BY <1>7, <4>3, <4>4
    <3>8. \A x \in Range(group) : x \in Range(rest) \/ \E j \in 1 .. k + 1 : more[j] = x
      <4>1. SUFFICES ASSUME NEW x \in Range(group), x \notin Range(rest)
                     PROVE  \E j \in 1 .. k + 1 : more[j] = x
        OBVIOUS
      <4>2. CASE x = e
        <5>1. k + 1 \in 1 .. k + 1
          OBVIOUS
        <5> QED BY <3>3, <4>2, <5>1
      <4>3. CASE x # e
        <5>1. PICK j \in 1 .. k : matched[j] = x
          BY <2>6, <3>1, <4>1, <4>3 DEF Taken
        <5>2. j \in 1 .. k + 1
          OBVIOUS
        <5> QED BY <3>3, <5>1, <5>2
      <4> QED BY <4>2, <4>3
    <3> QED BY <3>3, <3>6, <3>7, <3>8 DEF Taken
  <2>9. \A x \in Range(rest) : x \in Range(group)
    BY <1>5, <2>6
  <2>10. IF scan.failed THEN Differ(stages) => \E j \in 1 .. k + 1 : Missed(group, stages, j)
         ELSE Taken(group, k + 1, stages, more, rest)
    BY <1>6, <2>8
  <2> QED BY <2>5, <2>6, <2>9, <2>10 DEF TakingFound
<1>10. StageTaken(new, scan, stages[k + 1])
  BY TakeShape
<1> QED BY <1>2, <1>3, <1>8, <1>9, <1>10 DEF StageTaken

\* The match of an unordered rule in one group, when there is one.
LEMMA UnorderedMatches ==
  ASSUME NEW E, NEW group \in Seq(E), Distinct(group),
         NEW stages, NEW n \in Nat, DOMAIN stages = 1 .. n, NEW within,
         NEW found, found = MatchUnordered(group, stages, within)
  PROVE  /\ found \in Seq(Seq(E)) /\ Apart(found)
         /\ \A m \in Range(found) :
              Len(m) = n /\ Fills(group, Len(group), stages, m, FALSE) /\ WithinWindow(m, within)
         /\ within = Nil /\ found = << >> /\ Differ(stages) =>
              \E i \in 1 .. n : Missed(group, stages, i)
<1>1. PICK stage : Takes(stage, E, group, n, stages)
  BY TakeStagesStages
<1>2. /\ stage[0] = [left |-> group, matched |-> << >>, failed |-> FALSE]
      /\ \A k \in 1 .. n : stage[k] = Take(stage[k - 1], stages[k])
      /\ TakeStages(group, stages) = stage[n]
      /\ \A k \in 0 .. n : stage[k] \in Takings(E)
  BY <1>1 DEF Takes
<1> DEFINE Reached == {k \in Nat : k <= n => TakingFound(group, k, stages, stage[k])}
<1>3. 0 \in Reached
  <2>1. stage[0].left = group /\ stage[0].matched = << >> /\ ~stage[0].failed
    BY <1>2
  <2>2. Taken(group, 0, stages, << >>, group)
    BY EmptyRange DEF Taken
  <2>3. TakingFound(group, 0, stages, stage[0])
    BY <2>1, <2>2 DEF TakingFound
  <2> QED BY <2>3
<1>4. \A k \in Nat : k \in Reached => k + 1 \in Reached
  <2>1. SUFFICES ASSUME NEW k \in Nat, k + 1 <= n, TakingFound(group, k, stages, stage[k])
                 PROVE  TakingFound(group, k + 1, stages, stage[k + 1])
    OBVIOUS
  <2>2. k + 1 \in 1 .. n /\ (k + 1) - 1 = k /\ k \in 0 .. n
    BY <2>1
  <2>3. stage[k + 1] = Take(stage[k], stages[k + 1]) /\ stage[k] \in Takings(E)
    BY <1>2, <2>2
  <2> QED BY <2>1, <2>3, TakeKeeps
<1>5. TakingFound(group, n, stages, stage[n])
  <2>1. n \in Reached
    <3> HIDE DEF Reached
    <3> QED BY <1>3, <1>4, Induction
  <2> QED BY <2>1
<1>6. PICK taken \in Takings(E) : taken = stage[n] /\ taken = TakeStages(group, stages)
  BY <1>2
<1>7. PICK matched \in Seq(E) : matched = taken.matched
  BY DEF Takings
<1>8. taken.failed \in BOOLEAN
  BY DEF Takings
<1>9. found = IF taken.failed \/ ~WithinWindow(matched, within) THEN << >> ELSE <<matched>>
  BY <1>6, <1>7 DEF MatchUnordered, MatchOf
<1>10. CASE taken.failed \/ ~WithinWindow(matched, within)
  <2>1. found = << >>
    BY <1>9, <1>10
  <2>2. Range(found) = {} /\ found \in Seq(Seq(E))
    BY <2>1, EmptyRange
  <2>3. Apart(found)
    BY <2>2 DEF Apart
  <2>4. within = Nil /\ Differ(stages) => \E i \in 1 .. n : Missed(group, stages, i)
    BY <1>5, <1>6, <1>10 DEF TakingFound, WithinWindow
  <2> QED BY <2>2, <2>3, <2>4
<1>11. CASE ~taken.failed /\ WithinWindow(matched, within)
  <2>1. found = <<matched>>
    BY <1>9, <1>11
  <2>2. found # << >> /\ found \in Seq(Seq(E)) /\ Range(found) = {matched}
    BY <2>1 DEF Range
  <2>3. Apart(found)
    BY <2>2 DEF Apart
  <2>4. Taken(group, n, stages, matched, taken.left)
    BY <1>5, <1>6, <1>7, <1>11 DEF TakingFound
  <2>5. Len(matched) = n /\ Fills(group, Len(group), stages, matched, FALSE)
    <3>1. Len(matched) = n
      BY <2>4 DEF Taken
    <3>2. \A i \in 1 .. n : /\ matched[i] \in Range(group)
                            /\ Position(group, matched[i]) \in 1 .. Len(group)
                            /\ EventMatchesStage(matched[i], stages[i])
      BY <2>4, Positions DEF Taken
    <3>3. Len(group) \in Nat
      BY SequenceShape
    <3>4. \A i \in 1 .. n : Position(group, matched[i]) <= Len(group)
      BY <3>2, <3>3
    <3>5. \A i, j \in 1 .. n : i < j => matched[i] # matched[j]
      BY <2>4 DEF Taken
    <3> QED BY <3>1, <3>2, <3>4, <3>5 DEF Fills
  <2> QED BY <1>11, <2>2, <2>3, <2>5
<1> QED BY <1>8, <1>10, <1>11


(***************************************************************************)
(* Suppression and removal of duplicates.                                  *)
(***************************************************************************)
Ids(matched) == [i \in DOMAIN matched |-> matched[i].id]

Emit(rule, key, done, matched) ==
  LET under  == SuppressionKey(rule, key, matched)
      at     == Min(Times(matched))
      ids    == [i \in DOMAIN matched |-> matched[i].id]
      tooSoon == /\ rule.suppression_seconds # Nil
                 /\ under \in DOMAIN done.last
                 /\ at - done.last[under] <= rule.suppression_seconds
  IN  IF rule.deduplicate /\ ids \in done.seen THEN done
      ELSE IF tooSoon THEN [done EXCEPT !.seen = @ \cup {ids}]
      ELSE [seen |-> done.seen \cup {ids}, last |-> Recalled(done.last, under, at),
            emitted |-> Append(done.emitted, matched)]

Recollections(M, rule, key) ==
  UNION {[D -> {Min(Times(m)) : m \in M}] : D \in SUBSET {SuppressionKey(rule, key, m) : m \in M}}

Emissions(M, rule, key) ==
  [seen : SUBSET {Ids(m) : m \in M}, last : Recollections(M, rule, key), emitted : Seq(M)]

LEMMA RecalledType ==
  ASSUME NEW M, NEW rule, NEW key, NEW last \in Recollections(M, rule, key), NEW m \in M
  PROVE  Recalled(last, SuppressionKey(rule, key, m), Min(Times(m))) \in Recollections(M, rule, key)
<1> DEFINE T == {Min(Times(x)) : x \in M}
           K == {SuppressionKey(rule, key, x) : x \in M}
<1>1. PICK D \in SUBSET K : last \in [D -> T]
  BY DEF Recollections
<1>2. PICK under \in K : under = SuppressionKey(rule, key, m)
  OBVIOUS
<1>3. PICK at \in T : at = Min(Times(m))
  OBVIOUS
<1>4. Recalled(last, under, at) \in [D \cup {under} -> T]
  <2> HIDE DEF T, K
  <2> QED BY <1>1 DEF Recalled
<1>5. D \cup {under} \in SUBSET K
  <2> HIDE DEF T, K
  <2> QED OBVIOUS
<1>6. \A A \in SUBSET K : \A f \in [A -> T] : f \in Recollections(M, rule, key)
  <2>1. Recollections(M, rule, key) = UNION {[A -> T] : A \in SUBSET K}
    BY DEF Recollections
  <2> HIDE DEF T, K
  <2> QED BY <2>1
<1> HIDE DEF T, K
<1> QED BY <1>2, <1>3, <1>4, <1>5, <1>6

Emitting(new, rule, key, done, matched) ==
  \/ new.emitted = done.emitted /\ (done.seen # {} \/ DOMAIN done.last # {})
  \/ new.emitted = Append(done.emitted, matched)

LEMMA EmitShape ==
  ASSUME NEW M, NEW rule, NEW key, NEW done \in Emissions(M, rule, key), NEW m \in M,
         NEW new, new = Emit(rule, key, done, m)
  PROVE  new \in Emissions(M, rule, key) /\ Emitting(new, rule, key, done, m)
<1>1. PICK under : under = SuppressionKey(rule, key, m)
  OBVIOUS
<1>2. PICK at : at = Min(Times(m))
  OBVIOUS
<1>3. PICK ids : ids = Ids(m)
  OBVIOUS
<1>4. PICK seen \in SUBSET {Ids(x) : x \in M} : seen = done.seen
  BY DEF Emissions
<1>5. PICK last \in Recollections(M, rule, key) : last = done.last
  BY DEF Emissions
<1>6. PICK emitted \in Seq(M) : emitted = done.emitted
  BY DEF Emissions
<1>7. PICK tooSoon \in BOOLEAN : tooSoon <=>
        /\ rule.suppression_seconds # Nil
        /\ under \in DOMAIN last
        /\ at - last[under] <= rule.suppression_seconds
  OBVIOUS
<1>8. new = IF rule.deduplicate /\ ids \in seen THEN done
            ELSE IF tooSoon THEN [done EXCEPT !.seen = seen \cup {ids}]
            ELSE [seen |-> seen \cup {ids}, last |-> Recalled(last, under, at),
                  emitted |-> Append(emitted, m)]
  BY <1>1, <1>2, <1>3, <1>4, <1>5, <1>6, <1>7 DEF Emit, Ids
<1>9. seen \cup {ids} \in SUBSET {Ids(x) : x \in M}
  BY <1>3
<1>10. \A s \in SUBSET {Ids(x) : x \in M}, l \in Recollections(M, rule, key), e \in Seq(M) :
         [seen |-> s, last |-> l, emitted |-> e] \in Emissions(M, rule, key)
  BY DEF Emissions
<1>11. CASE rule.deduplicate /\ ids \in seen
  BY <1>4, <1>8, <1>11 DEF Emitting
<1>12. CASE ~(rule.deduplicate /\ ids \in seen) /\ tooSoon
  <2>1. new = [done EXCEPT !.seen = seen \cup {ids}]
    BY <1>8, <1>12
  <2>2. new = [seen |-> seen \cup {ids}, last |-> last, emitted |-> emitted]
    BY <1>5, <1>6, <2>1 DEF Emissions
  <2>3. new \in Emissions(M, rule, key)
    BY <1>9, <1>10, <2>2
  <2>4. DOMAIN last # {}
    BY <1>7, <1>12
  <2> QED BY <1>5, <1>6, <2>2, <2>3, <2>4 DEF Emitting
<1>13. CASE ~(rule.deduplicate /\ ids \in seen) /\ ~tooSoon
  <2>1. new = [seen |-> seen \cup {ids}, last |-> Recalled(last, under, at),
               emitted |-> Append(emitted, m)]
    BY <1>8, <1>13
  <2>2. Recalled(last, under, at) \in Recollections(M, rule, key)
    BY <1>1, <1>2, RecalledType
  <2>3. Append(emitted, m) \in Seq(M)
    BY AppendProperties
  <2>4. new \in Emissions(M, rule, key)
    BY <1>9, <1>10, <2>1, <2>2, <2>3
  <2> QED BY <1>6, <2>1, <2>4 DEF Emitting
<1> QED BY <1>11, <1>12, <1>13

Emits(stage, M, matches, n, rule, key) ==
  /\ stage[0] = [seen |-> {}, last |-> << >>, emitted |-> << >>]
  /\ \A k \in 1 .. n : stage[k] = Emit(rule, key, stage[k - 1], matches[k])
  /\ SuppressAndDedupe(matches, rule, key) = stage[n].emitted
  /\ \A k \in 0 .. n : stage[k] \in Emissions(M, rule, key)

LEMMA EmissionStages ==
  ASSUME NEW M, NEW matches, NEW n \in Nat, DOMAIN matches = 1 .. n,
         \A i \in 1 .. n : matches[i] \in M, NEW rule, NEW key
  PROVE  \E stage : Emits(stage, M, matches, n, rule, key)
<1> DEFINE S == Emissions(M, rule, key)
           step == [p \in (1 .. n) \X S |-> Emit(rule, key, p[2], matches[p[1]])]
           Folds(iter) == iter = [s \in SUBSET (DOMAIN matches) |->
                            IF s = {} THEN [seen |-> {}, last |-> << >>, emitted |-> << >>]
                            ELSE Emit(rule, key, iter[s \ {Max(s)}], matches[Max(s)])]
           fold == CHOOSE iter : Folds(iter)
<1>0. PICK base : base = [seen |-> {}, last |-> << >>, emitted |-> << >>]
  OBVIOUS
<1>1. SuppressAndDedupe(matches, rule, key) = fold[DOMAIN matches].emitted
  BY DEF SuppressAndDedupe, FoldLeft, MapThenFoldSet, Emit
<1>2. base \in S
  <2>1. << >> \in Recollections(M, rule, key)
    <3>1. \A f \in [{} -> {Min(Times(m)) : m \in M}] : f \in Recollections(M, rule, key)
      BY DEF Recollections
    <3>2. << >> \in [{} -> {Min(Times(m)) : m \in M}]
      OBVIOUS
    <3> QED BY <3>1, <3>2
  <2>2. << >> \in Seq(M)
    BY EmptyRange
  <2>3. {} \in SUBSET {Ids(m) : m \in M}
    OBVIOUS
  <2> QED BY <1>0, <2>1, <2>2, <2>3 DEF Emissions
<1>3. step \in Steps(n, S)
  <2>1. \A done \in Emissions(M, rule, key), i \in 1 .. n :
          Emit(rule, key, done, matches[i]) \in Emissions(M, rule, key)
    BY EmitShape
  <2> QED BY <2>1 DEF Steps
<1>4. PICK iter \in [SUBSET (1 .. n) -> S] : Iterates(iter, n, base, step)
  <2> HIDE DEF step, S
  <2> QED BY <1>2, <1>3, FoldExists
<1>5. \A s \in SUBSET (1 .. n) :
        s # {} => Max(s) \in 1 .. n /\ s \ {Max(s)} \in SUBSET (1 .. n)
  BY MaxOfSome
<1>6. Folds(iter)
  <2>1. \A s \in SUBSET (1 .. n) : iter[s] =
               IF s = {} THEN [seen |-> {}, last |-> << >>, emitted |-> << >>] ELSE Emit(rule, key, iter[s \ {Max(s)}], matches[Max(s)])
    <3>1. SUFFICES ASSUME NEW s \in SUBSET (1 .. n), s # {}
                   PROVE  iter[s] = Emit(rule, key, iter[s \ {Max(s)}], matches[Max(s)])
      BY <1>0, <1>4 DEF Iterates
    <3>2. PICK m \in 1 .. n, old \in S : m = Max(s) /\ old = iter[s \ {Max(s)}]
      BY <1>4, <1>5, <3>1
    <3>3. iter[s] = step[<<m, old>>]
      BY <1>4, <3>1, <3>2 DEF Iterates
    <3>4. step[<<m, old>>] = Emit(rule, key, old, matches[m])
      OBVIOUS
    <3> QED BY <3>2, <3>3, <3>4
  <2>2. iter = [s \in SUBSET (1 .. n) |-> iter[s]]
    OBVIOUS
  <2> HIDE DEF step
  <2> QED BY <2>1, <2>2
<1>7. PICK f : f = fold /\ Folds(f)
  <2> HIDE DEF Folds
  <2> QED BY <1>6
<1>8. f[{}] = [seen |-> {}, last |-> << >>, emitted |-> << >>] /\ \A s \in SUBSET (1 .. n) :
        s # {} => f[s] = Emit(rule, key, f[s \ {Max(s)}], matches[Max(s)])
  BY <1>7
<1>9. IteratesIn(f, n, S, base, step)
  <2> HIDE DEF S
  <2> QED BY <1>0, <1>5, <1>8 DEF IteratesIn
<1>10. PICK stage : StagesOf(stage, n, S, base, step) /\ f[1 .. n] = stage[n]
  <2> HIDE DEF S, step
  <2> QED BY <1>2, <1>3, <1>9, FoldStages
<1>11. \A k \in 1 .. n : stage[k] = Emit(rule, key, stage[k - 1], matches[k])
  <2>1. \A k \in 1 .. n : stage[k - 1] \in S
    <3> HIDE DEF S
    <3> QED BY <1>10 DEF StagesOf
  <2> HIDE DEF S
  <2> QED BY <1>10, <2>1 DEF StagesOf
<1>12. \A k \in 0 .. n : stage[k] \in S
  <2> HIDE DEF S
  <2> QED BY <1>10 DEF StagesOf
<1>13. stage[0] = [seen |-> {}, last |-> << >>, emitted |-> << >>]
  BY <1>0, <1>10 DEF StagesOf
<1> HIDE DEF fold
<1> QED BY <1>1, <1>7, <1>10, <1>11, <1>12, <1>13 DEF Emits

\* What is reported was found, and something is when something was.
LEMMA EmittedShape ==
  ASSUME NEW F, NEW found \in Seq(F), NEW rule, NEW key,
         NEW emitted, emitted = SuppressAndDedupe(found, rule, key)
  PROVE  /\ emitted \in Seq(Range(found))
         /\ emitted = << >> => found = << >>
<1>1. PICK n \in Nat : n = Len(found) /\ DOMAIN found = 1 .. n
  BY SequenceShape
<1>2. PICK M : M = Range(found)
  OBVIOUS
<1>3. \A i \in 1 .. n : found[i] \in M
  BY <1>1, <1>2 DEF Range
<1>4. PICK stage : Emits(stage, M, found, n, rule, key)
  BY <1>1, <1>3, EmissionStages
<1>5. /\ stage[0] = [seen |-> {}, last |-> << >>, emitted |-> << >>]
      /\ \A k \in 1 .. n : stage[k] = Emit(rule, key, stage[k - 1], found[k])
      /\ emitted = stage[n].emitted
      /\ \A k \in 0 .. n : stage[k] \in Emissions(M, rule, key)
  BY <1>4 DEF Emits
<1>6. emitted \in Seq(M)
  <2>1. stage[n] \in Emissions(M, rule, key)
    BY <1>5
  <2> QED BY <1>5, <2>1 DEF Emissions
<1> DEFINE Reached == {k \in Nat : k + 1 <= n => stage[k + 1].emitted # << >>}
<1>7. \A k \in 0 .. n - 1 : Emitting(stage[k + 1], rule, key, stage[k], found[k + 1])
                            /\ stage[k].emitted \in Seq(M) /\ found[k + 1] \in M
  <2>1. SUFFICES ASSUME NEW k \in 0 .. n - 1
                 PROVE  /\ Emitting(stage[k + 1], rule, key, stage[k], found[k + 1])
                        /\ stage[k].emitted \in Seq(M) /\ found[k + 1] \in M
    OBVIOUS
  <2>2. k + 1 \in 1 .. n /\ (k + 1) - 1 = k /\ k \in 0 .. n
    OBVIOUS
  <2>3. stage[k + 1] = Emit(rule, key, stage[k], found[k + 1])
        /\ stage[k] \in Emissions(M, rule, key) /\ found[k + 1] \in M
    BY <1>3, <1>5, <2>2
  <2>4. stage[k].emitted \in Seq(M)
    BY <2>3 DEF Emissions
  <2> QED BY <2>3, <2>4, EmitShape
<1>8. \A s \in Seq(M), m \in M : Append(s, m) # << >>
  BY AppendedRange
<1>9. 0 \in Reached
  <2>1. SUFFICES ASSUME 0 + 1 <= n PROVE stage[1].emitted # << >>
    OBVIOUS
  <2>2. stage[0].seen = {} /\ DOMAIN stage[0].last = {}
    BY <1>5
  <2>3. 0 \in 0 .. n - 1 /\ 0 + 1 = 1
    BY <2>1
  <2>4. stage[1].emitted = Append(stage[0].emitted, found[1])
    BY <1>7, <2>2, <2>3 DEF Emitting
  <2> QED BY <1>7, <1>8, <2>3, <2>4
<1>10. \A k \in Nat : k \in Reached => k + 1 \in Reached
  <2>1. SUFFICES ASSUME NEW k \in Nat, (k + 1) + 1 <= n, stage[k + 1].emitted # << >>
                 PROVE  stage[(k + 1) + 1].emitted # << >>
    OBVIOUS
  <2>2. k + 1 \in 0 .. n - 1
    BY <2>1
  <2> QED BY <1>7, <1>8, <2>1, <2>2 DEF Emitting
<1>11. \A k \in Nat : k \in Reached
  <2> HIDE DEF Reached
  <2> QED BY <1>9, <1>10, Induction
<1>12. n >= 1 => emitted # << >>
  <2>1. SUFFICES ASSUME n >= 1 PROVE emitted # << >>
    OBVIOUS
  <2>2. PICK p \in Nat : p + 1 = n
    <3>1. n - 1 \in Nat /\ (n - 1) + 1 = n
      BY <2>1
    <3> QED BY <3>1
  <2>3. stage[p + 1].emitted # << >>
    BY <1>11, <2>2
  <2> QED BY <1>5, <2>2, <2>3
<1>13. n = 0 => found = << >>
  BY <1>1
<1> QED BY <1>2, <1>6, <1>12, <1>13


(***************************************************************************)
(* What a rule finds in one group.                                         *)
(***************************************************************************)
Occurs(group, rule, matched) ==
  \E at \in Occurrences(group, rule) : matched = [i \in DOMAIN at |-> group[at[i]]]

LEMMA FillsOccur ==
  ASSUME NEW E, NEW group \in Seq(E), Distinct(group),
         NEW rule, NEW n \in Nat, DOMAIN rule.stages = 1 .. n,
         NEW m \in Seq(E), Len(m) = n, WithinWindow(m, rule.within_seconds),
         \/ rule.ordered /\ Fills(group, Len(group), rule.stages, m, TRUE)
         \/ ~rule.ordered /\ Fills(group, Len(group), rule.stages, m, FALSE)
  PROVE  Occurs(group, rule, m) /\ \A e \in Range(m) : e \in Range(group)
<1>1. DOMAIN group = 1 .. Len(group) /\ DOMAIN m = 1 .. n
  BY SequenceShape
<1>2. \A i \in 1 .. n : /\ m[i] \in Range(group)
                        /\ EventMatchesStage(m[i], rule.stages[i])
  BY DEF Fills
<1>3. \A i \in 1 .. n : /\ Position(group, m[i]) \in DOMAIN group
                        /\ group[Position(group, m[i])] = m[i]
  BY <1>1, <1>2, Positions
<1>4. \A i, j \in 1 .. n : i < j => IF rule.ordered
                                    THEN Position(group, m[i]) < Position(group, m[j])
                                    ELSE Position(group, m[i]) # Position(group, m[j])
  <2>1. CASE rule.ordered /\ Fills(group, Len(group), rule.stages, m, TRUE)
    BY <2>1 DEF Fills
  <2>2. CASE ~rule.ordered /\ Fills(group, Len(group), rule.stages, m, FALSE)
    BY <1>3, <2>2 DEF Fills
  <2> QED BY <2>1, <2>2
<1>5. PICK at \in [DOMAIN rule.stages -> DOMAIN group] :
        at = [i \in 1 .. n |-> Position(group, m[i])]
  BY <1>3
<1>6. DOMAIN at = 1 .. n /\ \A i \in 1 .. n : at[i] = Position(group, m[i]) /\ group[at[i]] = m[i]
  BY <1>3, <1>5
<1>7. m = [i \in DOMAIN at |-> group[at[i]]]
  <2>1. m = [i \in 1 .. n |-> m[i]]
    BY <1>1, LenProperties
  <2> QED BY <1>6, <2>1
<1>8. at \in Occurrences(group, rule)
  <2>1. \A i \in DOMAIN at : EventMatchesStage(group[at[i]], rule.stages[i])
    BY <1>2, <1>6
  <2>2. \A i, j \in DOMAIN at : i < j => IF rule.ordered THEN at[i] < at[j] ELSE at[i] # at[j]
    BY <1>4, <1>6
  <2>3. WithinWindow([i \in DOMAIN at |-> group[at[i]]], rule.within_seconds)
    BY <1>7
  <2> QED BY <2>1, <2>2, <2>3 DEF Occurrences
<1>9. \A e \in Range(m) : e \in Range(group)
  BY <1>1, <1>2 DEF Range
<1> QED BY <1>7, <1>8, <1>9 DEF Occurs

\* The rules that can be loaded have a list of stages.
Staged(rule, n) == n \in Nat /\ n >= 1 /\ DOMAIN rule.stages = 1 .. n /\ Len(rule.stages) = n

Complete(rule) == rule.within_seconds = Nil /\ (rule.ordered \/ ~Overlapping(rule))

LEMMA FoundInGroup ==
  ASSUME NEW E, NEW group \in Seq(E), Distinct(group), NEW rule, NEW n, Staged(rule, n),
         NEW found, found = IF rule.ordered
                            THEN MatchOrdered(group, rule.stages, rule.within_seconds)
                            ELSE MatchUnordered(group, rule.stages, rule.within_seconds)
  PROVE  /\ found \in Seq(Seq(E)) /\ Apart(found)
         /\ \A m \in Range(found) : /\ Occurs(group, rule, m)
                                    /\ \A e \in Range(m) : e \in Range(group)
         /\ Complete(rule) /\ found = << >> => Occurrences(group, rule) = {}
<1>1. n \in Nat /\ n >= 1 /\ DOMAIN rule.stages = 1 .. n /\ Len(rule.stages) = n
  BY DEF Staged
<1>2. DOMAIN group = 1 .. Len(group)
  BY SequenceShape
<1>3. \A at \in Occurrences(group, rule) :
        /\ at \in [1 .. n -> 1 .. Len(group)]
        /\ \A i \in 1 .. n : EventMatchesStage(group[at[i]], rule.stages[i])
        /\ rule.ordered => \A i, j \in 1 .. n : i < j => at[i] < at[j]
  BY <1>1, <1>2 DEF Occurrences
<1>4. CASE rule.ordered
  <2>1. found = MatchOrdered(group, rule.stages, rule.within_seconds)
    BY <1>4
  <2>2. /\ found \in Seq(Seq(E)) /\ Apart(found)
        /\ \A m \in Range(found) :
             Len(m) = Len(rule.stages) /\ Fills(group, Len(group), rule.stages, m, TRUE)
               /\ WithinWindow(m, rule.within_seconds)
        /\ rule.within_seconds = Nil /\ found = << >> =>
              \A at \in [1 .. Len(rule.stages) -> 1 .. Len(group)] :
                ~Climbs(group, rule.stages, at, Len(rule.stages))
    <3>1. Len(rule.stages) \in Nat /\ Len(rule.stages) >= 1
      BY <1>1
    <3> QED BY <2>1, <3>1, OrderedMatches
  <2>3. ASSUME NEW m \in Range(found)
        PROVE  Occurs(group, rule, m) /\ \A e \in Range(m) : e \in Range(group)
    <3>1. m \in Seq(E)
      BY <2>2, RangeIn
    <3>2. Len(m) = n /\ Fills(group, Len(group), rule.stages, m, TRUE)
          /\ WithinWindow(m, rule.within_seconds)
      BY <1>1, <2>2
    <3> QED BY <1>1, <1>4, <3>1, <3>2, FillsOccur
  <2>4. ASSUME Complete(rule), found = << >>, NEW at \in Occurrences(group, rule)
        PROVE  FALSE
    <3>1. Climbs(group, rule.stages, at, n)
      BY <1>3, <1>4, <2>4 DEF Climbs
    <3>2. at \in [1 .. n -> 1 .. Len(group)]
      BY <1>3
    <3> QED BY <1>1, <2>2, <2>4, <3>1, <3>2 DEF Complete
  <2> QED BY <2>2, <2>3, <2>4
<1>5. CASE ~rule.ordered
  <2>1. found = MatchUnordered(group, rule.stages, rule.within_seconds)
    BY <1>5
  <2>2. /\ found \in Seq(Seq(E)) /\ Apart(found)
        /\ \A m \in Range(found) :
             Len(m) = n /\ Fills(group, Len(group), rule.stages, m, FALSE)
               /\ WithinWindow(m, rule.within_seconds)
        /\ rule.within_seconds = Nil /\ found = << >> /\ Differ(rule.stages) =>
              \E i \in 1 .. n : Missed(group, rule.stages, i)
    <3>1. n \in Nat /\ DOMAIN rule.stages = 1 .. n
      BY <1>1
    <3> QED BY <2>1, <3>1, UnorderedMatches
  <2>3. ASSUME NEW m \in Range(found)
        PROVE  Occurs(group, rule, m) /\ \A e \in Range(m) : e \in Range(group)
    <3>1. m \in Seq(E)
      BY <2>2, RangeIn
    <3>2. Len(m) = n /\ Fills(group, Len(group), rule.stages, m, FALSE)
          /\ WithinWindow(m, rule.within_seconds)
      BY <2>2
    <3> QED BY <1>1, <1>5, <3>1, <3>2, FillsOccur
  <2>4. ASSUME Complete(rule), found = << >>, NEW at \in Occurrences(group, rule)
        PROVE  FALSE
    <3>1. Differ(rule.stages)
      BY <1>5, <2>4 DEF Complete, Overlapping, Differ
    <3>2. PICK i \in 1 .. n : Missed(group, rule.stages, i)
      BY <2>2, <2>4, <3>1 DEF Complete
    <3>3. at[i] \in 1 .. Len(group) /\ EventMatchesStage(group[at[i]], rule.stages[i])
      BY <1>3
    <3>4. group[at[i]] \in Range(group)
      BY <1>2, <3>3 DEF Range
    <3> QED BY <3>2, <3>3, <3>4 DEF Missed
  <2> QED BY <2>2, <2>3, <2>4
<1> QED BY <1>4, <1>5

FoundUnder(key, found, group, rule) ==
  /\ \A q \in Range(found) : /\ q.key = key /\ Occurs(group, rule, q.events)
                             /\ \A e \in Range(q.events) : GroupKey(e, rule.group_by) = key
  /\ \A q, r \in Range(found) : q # r => Range(q.events) \cap Range(r.events) = {}
  /\ Complete(rule) /\ Occurrences(group, rule) # {} => Range(found) # {}

LEMMA GroupMatches ==
  ASSUME NEW E, NEW events \in Seq(E), Distinct(events), NEW rule, NEW n, Staged(rule, n), NEW key,
         NEW group, group = OrderedGroup(events, rule.group_by, key),
         NEW found, found = MatchesOfGroup(events, rule, key)
  PROVE  found \in Seq([key : {key}, events : Seq(E)]) /\ FoundUnder(key, found, group, rule)
<1>1. /\ group \in Seq(E) /\ Distinct(group)
      /\ \A e : e \in Range(group) <=> e \in Range(events) /\ GroupKey(e, rule.group_by) = key
  BY GroupShape
<1>2. PICK matches : matches = IF rule.ordered
                               THEN MatchOrdered(group, rule.stages, rule.within_seconds)
                               ELSE MatchUnordered(group, rule.stages, rule.within_seconds)
  OBVIOUS
<1>3. /\ matches \in Seq(Seq(E)) /\ Apart(matches)
      /\ \A m \in Range(matches) : /\ Occurs(group, rule, m)
                                   /\ \A e \in Range(m) : e \in Range(group)
      /\ Complete(rule) /\ matches = << >> => Occurrences(group, rule) = {}
  BY <1>1, <1>2, FoundInGroup
<1>4. PICK emitted : emitted = SuppressAndDedupe(matches, rule, key)
  OBVIOUS
<1>5. emitted \in Seq(Range(matches)) /\ (emitted = << >> => matches = << >>)
  BY <1>3, <1>4, EmittedShape
<1>6. found = [i \in DOMAIN emitted |-> [key |-> key, events |-> emitted[i]]]
  BY <1>2, <1>4 DEF MatchesOfGroup, Keyed
<1>7. PICK l \in Nat : l = Len(emitted) /\ DOMAIN emitted = 1 .. l
                       /\ \A i \in 1 .. l : emitted[i] \in Range(matches)
  BY <1>5, SequenceShape
<1>8. \A m \in Range(matches) : m \in Seq(E)
  BY <1>3, RangeIn
<1>9. found \in Seq([key : {key}, events : Seq(E)])
  <2>1. \A i \in 1 .. l : [key |-> key, events |-> emitted[i]] \in [key : {key}, events : Seq(E)]
    BY <1>7, <1>8
  <2> QED BY <1>6, <1>7, <2>1
<1>10. \A q \in Range(found) : q.key = key /\ q.events \in Range(matches)
                               /\ q = [key |-> key, events |-> q.events]
  BY <1>6, <1>7 DEF Range
<1>11. \A q \in Range(found) : Occurs(group, rule, q.events)
                               /\ \A e \in Range(q.events) : GroupKey(e, rule.group_by) = key
  BY <1>1, <1>3, <1>10
<1>12. \A q, r \in Range(found) : q # r => Range(q.events) \cap Range(r.events) = {}
  BY <1>3, <1>10 DEF Apart
<1>13. ASSUME Complete(rule), Occurrences(group, rule) # {} PROVE Range(found) # {}
  <2>1. emitted # << >>
    BY <1>3, <1>5, <1>13
  <2>2. 1 \in 1 .. l
    BY <1>5, <1>7, <2>1, EmptySeq
  <2>3. found[1] \in Range(found)
    BY <1>6, <1>7, <2>2 DEF Range
  <2> QED BY <2>3
<1> QED BY <1>9, <1>10, <1>11, <1>12, <1>13 DEF FoundUnder


(***************************************************************************)
(* The matches of all groups, one after the other.                         *)
(***************************************************************************)
LEMMA StagesExist ==
  ASSUME NEW n \in Nat, NEW S, NEW base \in S, NEW step \in Steps(n, S)
  PROVE  \E stage : StagesOf(stage, n, S, base, step)
<1>1. PICK iter \in [SUBSET (1 .. n) -> S] : Iterates(iter, n, base, step)
  BY FoldExists
<1>2. \A s \in SUBSET (1 .. n) :
        s # {} => Max(s) \in 1 .. n /\ s \ {Max(s)} \in SUBSET (1 .. n)
  BY MaxOfSome
<1>3. IteratesIn(iter, n, S, base, step)
  BY <1>1, <1>2 DEF Iterates, IteratesIn
<1> QED BY <1>3, FoldStages

\* The elements of a sequence of sequences.
AllOf(all, seqs) == \A x : x \in Range(all) <=> \E i \in DOMAIN seqs : x \in Range(seqs[i])

LEMMA FlattenShape ==
  ASSUME NEW F, NEW seqs, NEW n \in Nat, DOMAIN seqs = 1 .. n, Len(seqs) = n,
         \A i \in 1 .. n : seqs[i] \in Seq(F),
         NEW all, all = FlattenSeq(seqs)
  PROVE  AllOf(all, seqs) /\ (n # 0 => all \in Seq(F))
<1> DEFINE Flattens(f) == f = [i \in 1 .. n |-> IF i = 1 THEN seqs[i] ELSE f[i - 1] \o seqs[i]]
<1>1. all = IF n = 0 THEN seqs ELSE (CHOOSE f : Flattens(f))[n]
  BY DEF FlattenSeq
<1>2. CASE n = 0
  BY <1>1, <1>2 DEF AllOf, Range
<1>3. CASE n # 0
  <2> DEFINE S == Seq(F)
             step == [p \in (1 .. n) \X S |-> p[2] \o seqs[p[1]]]
  <2>1. PICK base \in S : base = << >>
    BY EmptyRange
  <2>2. step \in Steps(n, S)
    <3>1. \A s \in S, i \in 1 .. n : s \o seqs[i] \in S
      BY ConcatProperties
    <3> QED BY <3>1 DEF Steps
  <2>3. PICK stage : StagesOf(stage, n, S, base, step)
    <3> HIDE DEF S, step
    <3> QED BY <2>2, StagesExist
  <2>4. \A k \in 0 .. n : stage[k] \in S
    <3> HIDE DEF S, step
    <3> QED BY <2>3 DEF StagesOf
  <2>5. \A k \in 1 .. n : stage[k] = stage[k - 1] \o seqs[k]
    <3>1. \A k \in 1 .. n : stage[k - 1] \in S
      <4> HIDE DEF S
      <4> QED BY <2>4
    <3>2. \A k \in 1 .. n : stage[k] = step[<<k, stage[k - 1]>>]
      <4> HIDE DEF S, step
      <4> QED BY <2>3 DEF StagesOf
    <3> HIDE DEF S
    <3> QED BY <3>1, <3>2
  <2>6. stage[0] = << >>
    <3> HIDE DEF S, step
    <3> QED BY <2>1, <2>3 DEF StagesOf
  <2>7. PICK flat : flat = [i \in 1 .. n |-> stage[i]]
    OBVIOUS
  <2>8. Flattens(flat)
    <3>1. \A i \in 1 .. n : stage[i] = IF i = 1 THEN seqs[i] ELSE flat[i - 1] \o seqs[i]
      <4>1. SUFFICES ASSUME NEW i \in 1 .. n
                     PROVE  stage[i] = IF i = 1 THEN seqs[i] ELSE flat[i - 1] \o seqs[i]
        OBVIOUS
      <4>2. CASE i = 1
        <5>0. 1 \in 1 .. n /\ 1 - 1 = 0
          BY <4>2
        <5>1. stage[1] = << >> \o seqs[1]
          <6>1. stage[1] = stage[1 - 1] \o seqs[1]
            BY <2>5, <5>0
          <6> QED BY <2>6, <5>0, <6>1
        <5>2. << >> \o seqs[1] = seqs[1]
          BY <4>2, ConcatEmptySeq
        <5> QED BY <4>2, <5>1, <5>2
      <4>3. CASE i # 1
        <5>1. i - 1 \in 1 .. n
          BY <4>3
        <5>2. flat[i - 1] = stage[i - 1]
          BY <2>7, <5>1
        <5> QED BY <2>5, <4>3, <5>2
      <4> QED BY <4>2, <4>3
    <3> QED BY <2>7, <3>1
  <2>9. PICK f : Flattens(f) /\ all = f[n]
    <3>1. Flattens(CHOOSE f : Flattens(f))
      <4> HIDE DEF Flattens
      <4> QED BY <2>8
    <3> HIDE DEF Flattens
    <3> QED BY <1>1, <1>3, <3>1
  <2>10. \A i \in 1 .. n : f[i] = IF i = 1 THEN seqs[i] ELSE f[i - 1] \o seqs[i]
    BY <2>9
  <2> DEFINE Gathers(k) == /\ f[k] \in Seq(F)
                           /\ \A x : x \in Range(f[k]) <=> \E i \in 1 .. k : x \in Range(seqs[i])
             Reached == {k \in Nat : k + 1 <= n => Gathers(k + 1)}
  <2>11. 0 \in Reached
    <3>1. 1 \in 1 .. n
      BY <1>3
    <3>2. f[1] = seqs[1] /\ seqs[1] \in Seq(F)
      BY <2>10, <3>1
    <3>3. \A i \in 1 .. 1 : i = 1
      OBVIOUS
    <3>4. Gathers(1)
      BY <3>2, <3>3
    <3>5. Gathers(0 + 1)
      BY <3>4
    <3> HIDE DEF Gathers
    <3> QED BY <3>5
  <2>12. \A k \in Nat : k \in Reached => k + 1 \in Reached
    <3>1. SUFFICES ASSUME NEW k \in Nat, (k + 1) + 1 <= n, Gathers(k + 1)
                   PROVE  Gathers((k + 1) + 1)
      <4> HIDE DEF Gathers
      <4> QED OBVIOUS
    <3>2. PICK l \in 1 .. n : l = (k + 1) + 1 /\ l - 1 = k + 1 /\ l # 1
      BY <3>1
    <3>3. PICK old \in Seq(F) : old = f[k + 1]
      BY <3>1
    <3>4. PICK piece \in Seq(F) : piece = seqs[l]
      OBVIOUS
    <3>5. PICK new : new = f[l]
      OBVIOUS
    <3>6. new = old \o piece
      BY <2>10, <3>2, <3>3, <3>4, <3>5
    <3>7. new \in Seq(F)
      BY <3>6, ConcatProperties
    <3>8. \A x : x \in Range(new) <=> x \in Range(old) \/ x \in Range(piece)
      <4>1. PICK m \in Nat : m = Len(old) /\ \A x : x \in Range(old) <=> \E i \in 1 .. m : old[i] = x
        BY SequenceShape
      <4>2. PICK o \in Nat : o = Len(piece) /\ \A x : x \in Range(piece) <=> \E i \in 1 .. o : piece[i] = x
        BY SequenceShape
      <4>3. /\ Len(new) = m + o
            /\ \A j \in 1 .. m + o : new[j] = IF j <= m THEN old[j] ELSE piece[j - m]
        BY <3>6, <4>1, <4>2, JoinShape
      <4>4. \A x : x \in Range(new) <=> \E i \in 1 .. m + o : new[i] = x
        BY <3>7, <4>3, SequenceShape
      <4>5. \A j \in 1 .. m + o : /\ j <= m => j \in 1 .. m /\ new[j] = old[j]
                                  /\ j > m => j - m \in 1 .. o /\ new[j] = piece[j - m]
        BY <4>1, <4>2, <4>3
      <4>6. \A x : x \in Range(new) => x \in Range(old) \/ x \in Range(piece)
        <5>1. SUFFICES ASSUME NEW x, x \in Range(new) PROVE x \in Range(old) \/ x \in Range(piece)
          OBVIOUS
        <5>2. PICK j \in 1 .. m + o : new[j] = x
          BY <4>4, <5>1
        <5>3. CASE j <= m
          BY <4>1, <4>5, <5>2, <5>3
        <5>4. CASE j > m
          BY <4>2, <4>5, <5>2, <5>4
        <5>5. j <= m \/ j > m
          OBVIOUS
        <5> QED BY <5>3, <5>4, <5>5
      <4>7. \A j \in 1 .. m : new[j] = old[j] /\ j \in 1 .. m + o
        BY <4>1, <4>2, <4>3
      <4>8. \A j \in 1 .. o : new[m + j] = piece[j] /\ m + j \in 1 .. m + o
        <5>1. \A j \in 1 .. o : m + j \in 1 .. m + o /\ ~(m + j <= m) /\ (m + j) - m = j
          BY <4>1, <4>2
        <5> QED BY <4>3, <5>1
      <4>9. \A x : x \in Range(old) => x \in Range(new)
        BY <4>1, <4>4, <4>7
      <4>10. \A x : x \in Range(piece) => x \in Range(new)
        BY <4>2, <4>4, <4>8
      <4> QED BY <4>6, <4>9, <4>10
    <3>9. \A x : x \in Range(old) <=> \E i \in 1 .. k + 1 : x \in Range(seqs[i])
      BY <3>1, <3>3
    <3>10. \A i \in 1 .. l : i = l \/ i \in 1 .. k + 1
      BY <3>2
    <3>11. l \in 1 .. l /\ \A i \in 1 .. k + 1 : i \in 1 .. l
      BY <3>2
    <3>12. \A x : x \in Range(new) <=> \E i \in 1 .. l : x \in Range(seqs[i])
      BY <3>4, <3>8, <3>9, <3>10, <3>11
    <3>13. Gathers(l)
      BY <3>5, <3>7, <3>12
    <3> HIDE DEF Gathers
    <3> QED BY <3>2, <3>13
  <2>13. \A k \in Nat : k \in Reached
    <3> HIDE DEF Reached
    <3> QED BY <2>11, <2>12, Induction
  <2>14. PICK p \in Nat : p + 1 = n
    <3>1. n - 1 \in Nat /\ (n - 1) + 1 = n
      BY <1>3
    <3> QED BY <3>1
  <2>15. Gathers(n)
    <3> HIDE DEF Gathers
    <3>1. p + 1 <= n => Gathers(p + 1)
      BY <2>13
    <3>2. p + 1 <= n
      BY <2>14
    <3> QED BY <2>14, <3>1, <3>2
  <2> QED BY <1>3, <2>9, <2>15 DEF AllOf
<1> QED BY <1>2, <1>3

\* Every key is that of an event.
KeysOf(keys, events, paths) ==
  \A key : key \in Range(keys) <=> \E e \in Range(events) : key = GroupKey(e, paths)

LEMMA KeysShape ==
  ASSUME NEW E, NEW events \in Seq(E), NEW paths, NEW keys, keys = GroupKeys(events, paths)
  PROVE  /\ keys \in Seq({GroupKey(e, paths) : e \in Range(events)})
         /\ KeysOf(keys, events, paths)
<1>1. PICK n \in Nat : n = Len(events) /\ DOMAIN events = 1 .. n
  BY SequenceShape
<1>2. PICK stage : KeyStages(stage, events, n, paths)
  BY <1>1, GroupKeysStages
<1>3. PICK K : K = {GroupKey(events[i], paths) : i \in 1 .. n}
  OBVIOUS
<1>4. K = {GroupKey(e, paths) : e \in Range(events)}
  BY <1>1, <1>3 DEF Range
<1>5. /\ stage[0] = << >>
      /\ \A k \in 1 .. n : stage[k] = AddKey(paths, stage[k - 1], events[k])
      /\ keys = stage[n]
      /\ \A k \in 0 .. n : stage[k] \in Seq(K)
  BY <1>2, <1>3 DEF KeyStages
<1> DEFINE Good(k) == \A i \in 1 .. k : GroupKey(events[i], paths) \in Range(stage[k])
           Reached == {k \in Nat : k <= n => Good(k)}
<1>6. 0 \in Reached
  OBVIOUS
<1>7. \A k \in Nat : k \in Reached => k + 1 \in Reached
  <2>1. SUFFICES ASSUME NEW k \in Nat, k + 1 <= n, Good(k) PROVE Good(k + 1)
    <3> HIDE DEF Good
    <3> QED OBVIOUS
  <2>2. PICK l \in 1 .. n : l = k + 1 /\ l - 1 = k
    BY <2>1
  <2>3. PICK old \in Seq(K) : old = stage[k]
    BY <1>5, <2>1
  <2>4. PICK key \in K : key = GroupKey(events[l], paths)
    BY <1>3
  <2>5. PICK new : new = stage[l]
    OBVIOUS
  <2>6. new = IF key \in Range(old) THEN old ELSE Append(old, key)
    BY <1>5, <2>2, <2>3, <2>4, <2>5 DEF AddKey
  <2>7. \A x : x \in Range(old) => x \in Range(new)
    <3>1. CASE key \in Range(old)
      BY <2>6, <3>1
    <3>2. CASE key \notin Range(old)
      <4>1. new = Append(old, key)
        BY <2>6, <3>2
      <4>2. Extended(new, old, key)
        BY <4>1, AppendedRange
      <4> QED BY <4>2 DEF Extended
    <3> QED BY <3>1, <3>2
  <2>8. key \in Range(new)
    <3>1. CASE key \in Range(old)
      BY <2>6, <3>1
    <3>2. CASE key \notin Range(old)
      <4>1. new = Append(old, key)
        BY <2>6, <3>2
      <4>2. Extended(new, old, key)
        BY <4>1, AppendedRange
      <4> QED BY <4>2 DEF Extended
    <3> QED BY <3>1, <3>2
  <2>9. \A i \in 1 .. l : i = l \/ i \in 1 .. k
    BY <2>2
  <2>10. \A i \in 1 .. l : GroupKey(events[i], paths) \in Range(new)
    BY <2>1, <2>3, <2>4, <2>7, <2>8, <2>9
  <2> QED BY <2>2, <2>5, <2>10
<1>8. Good(n)
  <2>1. n \in Reached
    <3> HIDE DEF Reached
    <3> QED BY <1>6, <1>7, Induction
  <2> QED BY <2>1
<1>9. \A e \in Range(events) : GroupKey(e, paths) \in Range(keys)
  BY <1>1, <1>5, <1>8 DEF Range
<1>10. \A key \in Range(keys) : key \in K
  BY <1>5, RangeIn
<1>11. KeysOf(keys, events, paths)
  BY <1>4, <1>9, <1>10 DEF KeysOf
<1> QED BY <1>4, <1>5, <1>11

\* A match of the rule is a match in some group that has events.
GroupedMatches(all, events, rule) ==
  \A q : q \in Range(all) <=>
           \E e \in Range(events) : q \in Range(MatchesOfGroup(events, rule, GroupKey(e, rule.group_by)))

LEMMA EvaluateShape ==
  ASSUME NEW E, NEW events \in Seq(E), Distinct(events), NEW rule, NEW n, Staged(rule, n),
         NEW all, all = EvaluateSequenceRule(events, rule)
  PROVE  GroupedMatches(all, events, rule) /\ (Range(all) = {} => all = << >>)
<1>1. PICK keys : keys = GroupKeys(events, rule.group_by)
  OBVIOUS
<1>2. PICK K : keys \in Seq(K) /\ KeysOf(keys, events, rule.group_by)
  BY <1>1, KeysShape
<1>3. PICK l \in Nat : /\ l = Len(keys) /\ DOMAIN keys = 1 .. l /\ \A i \in 1 .. l : keys[i] \in K
                       /\ \A key : key \in Range(keys) <=> \E i \in 1 .. l : keys[i] = key
  BY <1>2, SequenceShape
<1>4. PICK F : F = [key : K, events : Seq(E)]
  OBVIOUS
<1>5. PICK seqs : seqs = [i \in 1 .. l |-> MatchesOfGroup(events, rule, keys[i])]
  OBVIOUS
<1>6. \A i \in 1 .. l : seqs[i] \in Seq(F)
  <2>1. SUFFICES ASSUME NEW i \in 1 .. l PROVE seqs[i] \in Seq(F)
    OBVIOUS
  <2>2. PICK key \in K : key = keys[i]
    BY <1>3
  <2>3. PICK found : found = MatchesOfGroup(events, rule, key)
    OBVIOUS
  <2>4. PICK G : G = [key : {key}, events : Seq(E)]
    OBVIOUS
  <2>5. found \in Seq(G)
    BY <2>3, <2>4, GroupMatches
  <2>6. \A x \in G : x \in F
    BY <1>4, <2>4
  <2>7. found \in Seq(F)
    <3>1. /\ Len(found) \in Nat /\ found = [j \in 1 .. Len(found) |-> found[j]]
          /\ \A j \in 1 .. Len(found) : found[j] \in G
      BY <2>5, SequenceShape, LenProperties
    <3>2. \A j \in 1 .. Len(found) : found[j] \in F
      BY <2>6, <3>1
    <3> QED BY <3>1, <3>2
  <2> QED BY <1>5, <2>2, <2>3, <2>7
<1>7. DOMAIN seqs = 1 .. l /\ Len(seqs) = l
  BY <1>5
<1>8. all = FlattenSeq(seqs)
  BY <1>1, <1>3, <1>5 DEF EvaluateSequenceRule
<1>9. AllOf(all, seqs) /\ (l # 0 => all \in Seq(F))
  BY <1>6, <1>7, <1>8, FlattenShape
<1>10. \A q : q \in Range(all) <=>
                \E i \in 1 .. l : q \in Range(MatchesOfGroup(events, rule, keys[i]))
  BY <1>5, <1>7, <1>9 DEF AllOf
<1>11. \A i \in 1 .. l : \E e \in Range(events) : keys[i] = GroupKey(e, rule.group_by)
  BY <1>2, <1>3 DEF KeysOf
<1>12. \A e \in Range(events) : \E i \in 1 .. l : keys[i] = GroupKey(e, rule.group_by)
  BY <1>2, <1>3 DEF KeysOf
<1>13. Range(all) = {} => all = << >>
  <2>1. CASE l = 0
    <3>1. seqs = << >>
      BY <1>5, <2>1
    <3> QED BY <1>7, <1>8, <2>1, <3>1 DEF FlattenSeq
  <2>2. CASE l # 0
    <3>1. Len(all) \in Nat /\ \A e : e \in Range(all) <=> \E i \in 1 .. Len(all) : all[i] = e
      BY <1>9, <2>2, SequenceShape
    <3>2. Range(all) = {} => Len(all) = 0
      <4>1. Len(all) # 0 => 1 \in 1 .. Len(all)
        BY <3>1
      <4> QED BY <3>1, <4>1
    <3> QED BY <1>9, <2>2, <3>2, EmptySeq
  <2> QED BY <2>1, <2>2
<1> QED BY <1>10, <1>11, <1>12, <1>13 DEF GroupedMatches


(***************************************************************************)
(* What is reported for a rule.                                            *)
(***************************************************************************)
InGroup(events, rule, key) == OrderedGroup(events, rule.group_by, key)

ReportsOf(all, events, rule) ==
  /\ \A q \in Range(all) :
       /\ Occurs(InGroup(events, rule, q.key), rule, q.events)
       /\ \E e \in Range(events) : q.key = GroupKey(e, rule.group_by)
  /\ \A q, r \in Range(all) : q # r => Range(q.events) \cap Range(r.events) = {}
  /\ Complete(rule) =>
       \A e \in Range(events) :
         Occurrences(InGroup(events, rule, GroupKey(e, rule.group_by)), rule) # {}
           => \E q \in Range(all) : q.key = GroupKey(e, rule.group_by)

LEMMA RuleReports ==
  ASSUME NEW E, NEW events \in Seq(E), Distinct(events), NEW rule, NEW n, Staged(rule, n),
         NEW all, all = EvaluateSequenceRule(events, rule)
  PROVE  ReportsOf(all, events, rule)
<1> DEFINE Of(key) == Range(MatchesOfGroup(events, rule, key))
<1>1. GroupedMatches(all, events, rule)
  BY EvaluateShape
<1>2. ASSUME NEW key
      PROVE  /\ \A q \in Of(key) :
                  /\ q.key = key /\ Occurs(InGroup(events, rule, key), rule, q.events)
                  /\ \A e \in Range(q.events) : GroupKey(e, rule.group_by) = key
             /\ \A q, r \in Of(key) : q # r => Range(q.events) \cap Range(r.events) = {}
             /\ Complete(rule) /\ Occurrences(InGroup(events, rule, key), rule) # {} => Of(key) # {}
  <2>1. FoundUnder(key, MatchesOfGroup(events, rule, key), OrderedGroup(events, rule.group_by, key), rule)
    BY GroupMatches
  <2> QED BY <2>1 DEF FoundUnder, InGroup
<1>3. \A q : q \in Range(all) <=>
               \E e \in Range(events) : q \in Of(GroupKey(e, rule.group_by))
  BY <1>1 DEF GroupedMatches
<1> HIDE DEF Of
<1>4. ASSUME NEW q \in Range(all)
      PROVE  /\ Occurs(InGroup(events, rule, q.key), rule, q.events)
             /\ \E e \in Range(events) : q.key = GroupKey(e, rule.group_by)
  <2>1. PICK e \in Range(events) : q \in Of(GroupKey(e, rule.group_by))
    BY <1>3
  <2> QED BY <1>2, <2>1
<1>5. ASSUME NEW q \in Range(all), NEW r \in Range(all), q # r
      PROVE  Range(q.events) \cap Range(r.events) = {}
  <2>1. PICK e \in Range(events) : q \in Of(GroupKey(e, rule.group_by))
    BY <1>3
  <2>2. PICK f \in Range(events) : r \in Of(GroupKey(f, rule.group_by))
    BY <1>3
  <2>3. CASE GroupKey(e, rule.group_by) = GroupKey(f, rule.group_by)
    BY <1>2, <1>5, <2>1, <2>2, <2>3
  <2>4. CASE GroupKey(e, rule.group_by) # GroupKey(f, rule.group_by)
    BY <1>2, <2>1, <2>2, <2>4
  <2> QED BY <2>3, <2>4
<1>6. ASSUME Complete(rule), NEW e \in Range(events),
             Occurrences(InGroup(events, rule, GroupKey(e, rule.group_by)), rule) # {}
      PROVE  \E q \in Range(all) : q.key = GroupKey(e, rule.group_by)
  <2>1. PICK q : q \in Of(GroupKey(e, rule.group_by))
    BY <1>2, <1>6
  <2> QED BY <1>2, <1>3, <2>1
<1> QED BY <1>4, <1>5, <1>6 DEF ReportsOf

LEMMA RearrangedShape ==
  ASSUME NEW E, NEW events \in Seq(E), Distinct(events), NEW other \in Rearranged(events)
  PROVE  other \in Seq(E) /\ Distinct(other) /\ Range(other) = Range(events)
<1>1. PICK n \in Nat : n = Len(events) /\ DOMAIN events = 1 .. n /\ \A i \in 1 .. n : events[i] \in E
  BY SequenceShape
<1>2. PICK order \in Bijection(1 .. n, 1 .. n) : other = [i \in 1 .. n |-> events[order[i]]]
  BY <1>1 DEF Rearranged
<1>3. /\ order \in [1 .. n -> 1 .. n]
      /\ \A i, j \in 1 .. n : order[i] = order[j] => i = j
      /\ \A j \in 1 .. n : \E i \in 1 .. n : order[i] = j
  BY DEF Bijection, Injection, IsInjective, Surjection
<1>4. /\ DOMAIN other = 1 .. n
      /\ \A i \in 1 .. n : order[i] \in 1 .. n /\ other[i] = events[order[i]] /\ other[i] \in E
  BY <1>1, <1>2, <1>3
<1>5. other \in Seq(E)
  <2>1. other = [i \in 1 .. n |-> other[i]] /\ \A i \in 1 .. n : other[i] \in E
    BY <1>2, <1>4
  <2> QED BY <2>1
<1>6. Distinct(other)
  <2>1. \A i, j \in 1 .. n : events[i] = events[j] => i = j
    BY <1>1 DEF Distinct
  <2>2. \A i, j \in 1 .. n : other[i] = other[j] => order[i] = order[j]
    BY <1>4, <2>1
  <2> QED BY <1>3, <1>4, <2>2 DEF Distinct
<1>7. \A e : e \in Range(other) <=> \E i \in 1 .. n : other[i] = e
  BY <1>4 DEF Range
<1>8. \A e : e \in Range(events) <=> \E i \in 1 .. n : events[i] = e
  BY <1>1 DEF Range
<1>9. \A e : e \in Range(other) <=> e \in Range(events)
  <2>1. \A e : e \in Range(other) => e \in Range(events)
    BY <1>4, <1>7, <1>8
  <2>2. ASSUME NEW j \in 1 .. n PROVE events[j] \in Range(other)
    <3>1. PICK i \in 1 .. n : order[i] = j
      BY <1>3
    <3>2. other[i] = events[j]
      BY <1>4, <3>1
    <3> QED BY <1>7, <3>2
  <2> QED BY <1>8, <2>1, <2>2
<1>10. Range(other) = Range(events)
  BY <1>9
<1> QED BY <1>5, <1>6, <1>10

LEMMA ArrivalIrrelevant ==
  ASSUME NEW E, Typed(E), NEW events \in Seq(E), Distinct(events), NEW rule, NEW n, Staged(rule, n),
         NEW other \in Rearranged(events)
  PROVE  Range(EvaluateSequenceRule(other, rule)) = Range(EvaluateSequenceRule(events, rule))
<1>1. other \in Seq(E) /\ Distinct(other) /\ Range(other) = Range(events)
  BY RearrangedShape
<1>2. \A key : OrderedGroup(other, rule.group_by, key) = OrderedGroup(events, rule.group_by, key)
  BY <1>1, GroupsAgree
<1>3. \A key : MatchesOfGroup(other, rule, key) = MatchesOfGroup(events, rule, key)
  BY <1>2 DEF MatchesOfGroup
<1>4. PICK one : one = EvaluateSequenceRule(other, rule) /\ GroupedMatches(one, other, rule)
  BY <1>1, EvaluateShape
<1>5. PICK two : two = EvaluateSequenceRule(events, rule) /\ GroupedMatches(two, events, rule)
  BY EvaluateShape
<1>6. \A q : q \in Range(one) <=> q \in Range(two)
  BY <1>1, <1>3, <1>4, <1>5 DEF GroupedMatches
<1> QED BY <1>4, <1>5, <1>6

----------------------------------------------------------------------------
(***************************************************************************)
(* The specification.                                                      *)
(***************************************************************************)
DetectionInv ==
  /\ corpus \in Seq(EventPool) /\ Distinct(corpus)
  /\ pack # Nil => pack \in Packs /\ rules = LoadSequenceRules(pack)
  /\ report # Nil => /\ pack # Nil /\ rules # Bad
                     /\ report = ExplainSequenceRule(corpus, rules[1])

LEMMA LoadedRules ==
  ASSUME NEW documents \in Packs, LoadSequenceRules(documents) # Bad
  PROVE  \E n : Staged(LoadSequenceRules(documents)[1], n)
<1>1. /\ documents # << >> /\ documents \in Seq(Range(documents))
      /\ \A document \in Range(documents) :
           /\ "stages" \in DOMAIN document
           /\ document.stages \in {Nil, Bad} \/ document.stages \in Seq(Range(document.stages))
  BY PackDocuments
<1>2. 1 \in DOMAIN documents
  BY <1>1, SequenceShape, EmptySeq
<1>3. PICK document : document = documents[1] /\ document \in Range(documents)
  BY <1>2 DEF Range
<1>4. DocumentLoads(document)
  BY <1>2, <1>3 DEF LoadSequenceRules
<1>5. document.stages \notin {Nil, << >>} /\ document.stages # Bad
  BY <1>1, <1>3, <1>4 DEF DocumentLoads
<1>6. PICK stages : stages = document.stages /\ stages \in Seq(Range(stages)) /\ stages # << >>
  BY <1>1, <1>3, <1>5
<1>7. PICK n \in Nat : n = Len(stages) /\ DOMAIN stages = 1 .. n /\ n >= 1
  BY <1>6, SequenceShape, EmptySeq
<1>8. PICK rule : rule = SequenceRuleFromDict(document) /\ rule = LoadSequenceRules(documents)[1]
  BY <1>2, <1>3 DEF LoadSequenceRules
<1>9. rule.stages = [i \in 1 .. n |->
                       [event_type |-> stages[i].event_type,
                        where |-> Default(stages[i].where, << >>)]]
  BY <1>6, <1>7, <1>8 DEF SequenceRuleFromDict
<1>10. DOMAIN rule.stages = 1 .. n /\ Len(rule.stages) = n
  BY <1>9
<1> QED BY <1>7, <1>8, <1>10 DEF Staged

LEMMA DetectionInvInit ==
  DetectionInit => DetectionInv
BY EmptyRange DEF DetectionInit, DetectionInv, Distinct

LEMMA DetectionInvNext ==
  DetectionInv /\ [DetectionNext]_detectionVars => DetectionInv'
<1>1. SUFFICES ASSUME DetectionInv, [DetectionNext]_detectionVars PROVE DetectionInv'
  OBVIOUS
<1>2. CASE LoadPack
  BY <1>1, <1>2 DEF LoadPack, DetectionInv
<1>3. CASE Arrive
  <2>1. PICK event \in EventPool : event \notin Range(corpus) /\ corpus' = Append(corpus, event)
    BY <1>3 DEF Arrive
  <2>2. PICK n \in Nat : n = Len(corpus) /\ DOMAIN corpus = 1 .. n
    BY <1>1, SequenceShape DEF DetectionInv
  <2>3. /\ corpus' \in Seq(EventPool) /\ Len(corpus') = n + 1 /\ corpus'[n + 1] = event
        /\ \A i \in 1 .. n : corpus'[i] = corpus[i]
    BY <1>1, <2>1, <2>2, AppendProperties DEF DetectionInv
  <2>4. DOMAIN corpus' = 1 .. n + 1
    BY <2>3, LenProperties
  <2>5. \A i \in 1 .. n : corpus[i] # event
    BY <2>1, <2>2 DEF Range
  <2>6. \A i, j \in 1 .. n : corpus[i] = corpus[j] => i = j
    BY <1>1, <2>2 DEF DetectionInv, Distinct
  <2>7. \A i, j \in 1 .. n + 1 : corpus'[i] = corpus'[j] => i = j
    <3>1. \A i \in 1 .. n + 1 : i = n + 1 \/ i \in 1 .. n
      OBVIOUS
    <3> QED BY <2>3, <2>5, <2>6, <3>1
  <2>8. Distinct(corpus)'
    BY <2>4, <2>7 DEF Distinct
  <2> QED BY <1>1, <1>3, <2>3, <2>8 DEF Arrive, DetectionInv
<1>4. CASE Explain
  BY <1>1, <1>4 DEF Explain, DetectionInv, Distinct
<1>5. CASE Replay
  BY <1>1, <1>5 DEF Replay, DetectionInv, Distinct
<1>6. CASE UNCHANGED detectionVars
  BY <1>1, <1>6 DEF detectionVars, DetectionInv, Distinct
<1> QED BY <1>1, <1>2, <1>3, <1>4, <1>5, <1>6 DEF DetectionNext

\* Every match that a rule reports is one occurrence of its stages in its group,
\* no two share an event, a rule without a window misses no group in which its
\* stages occur, and the order in which the events arrived makes no difference.
THEOREM RulesReportWhatOccurred == DetectionSpec => []ReportedSequencesOccurred
<1>1. DetectionInv => ReportedSequencesOccurred
  <2>1. SUFFICES ASSUME DetectionInv, report # Nil PROVE ReportedSequencesOccurred
    BY DEF ReportedSequencesOccurred
  <2>2. PICK rule, n : rule = rules[1] /\ Staged(rule, n)
    BY <2>1, LoadedRules DEF DetectionInv
  <2>3. corpus \in Seq(EventPool) /\ Distinct(corpus) /\ Typed(EventPool)
    BY <2>1, PooledEvents DEF DetectionInv, Typed
  <2>4. PICK all : all = EvaluateSequenceRule(corpus, rule) /\ report.matches = all
    BY <2>1, <2>2 DEF DetectionInv, ExplainSequenceRule
  <2>5. DOMAIN report.groups = Range(GroupKeys(corpus, rule.group_by))
    BY <2>1, <2>2 DEF DetectionInv, ExplainSequenceRule
  <2>6. /\ \A q \in Range(all) : Occurs(InGroup(corpus, rule, q.key), rule, q.events)
        /\ \A q, r \in Range(all) : q # r => Range(q.events) \cap Range(r.events) = {}
        /\ Complete(rule) =>
             \A e \in Range(corpus) :
               Occurrences(InGroup(corpus, rule, GroupKey(e, rule.group_by)), rule) # {}
                 => \E q \in Range(all) : q.key = GroupKey(e, rule.group_by)
    <3>1. ReportsOf(all, corpus, rule)
      BY <2>2, <2>3, <2>4, RuleReports
    <3> QED BY <3>1 DEF ReportsOf
  <2>7. \A key \in DOMAIN report.groups : \E e \in Range(corpus) : key = GroupKey(e, rule.group_by)
    <3>1. PICK keys : keys = GroupKeys(corpus, rule.group_by)
      OBVIOUS
    <3>2. KeysOf(keys, corpus, rule.group_by)
      BY <2>3, <3>1, KeysShape
    <3> QED BY <2>5, <3>1, <3>2 DEF KeysOf
  <2>8. \A other \in Rearranged(corpus) : Range(EvaluateSequenceRule(other, rule)) = Range(all)
    BY <2>2, <2>3, <2>4, ArrivalIrrelevant
  <2>9. \A q \in Range(all) :
          \E at \in Occurrences(OrderedGroup(corpus, rule.group_by, q.key), rule) :
            q.events = [i \in DOMAIN at |-> OrderedGroup(corpus, rule.group_by, q.key)[at[i]]]
    BY <2>6 DEF Occurs, InGroup
  <2>10. rule.within_seconds = Nil /\ (rule.ordered \/ ~Overlapping(rule)) =>
           \A key \in DOMAIN report.groups :
             Occurrences(OrderedGroup(corpus, rule.group_by, key), rule) # {}
               => \E q \in Range(all) : q.key = key
    BY <2>6, <2>7 DEF Complete, InGroup
  <2> QED BY <2>2, <2>4, <2>6, <2>8, <2>9, <2>10 DEF ReportedSequencesOccurred
<1> QED BY <1>1, DetectionInvInit, DetectionInvNext, PTL DEF DetectionSpec

----------------------------------------------------------------------------
(***************************************************************************)
(* Counterexamples.                                                        *)
(***************************************************************************)
Fails(rule, events, expected) == Matches(events, rule) # expected

Minimal(rule, events, expected) ==
  \A i \in DOMAIN events : Matches(RemoveAt(events, i), rule) = expected

\* Some of the events, in the order in which they stand.
PartOf(part, events) ==
  \E at \in [DOMAIN part -> DOMAIN events] :
    /\ \A i, j \in DOMAIN at : i < j => at[i] < at[j]
    /\ part = [i \in DOMAIN at |-> events[at[i]]]

LEMMA WithoutFirstShape ==
  ASSUME NEW E, NEW s \in Seq(E), NEW rule, NEW expected,
         NEW new, new = WithoutFirst(rule, s, expected)
  PROVE  /\ new \in Seq(E)
         /\ \/ new = s /\ Minimal(rule, s, expected)
            \/ /\ ~Minimal(rule, s, expected) /\ Fails(rule, new, expected)
               /\ \E i \in 1 .. Len(s) : new = RemoveAt(s, i)
<1>1. PICK n \in Nat : n = Len(s) /\ DOMAIN s = 1 .. n
  BY SequenceShape
<1>2. PICK I \in SUBSET (1 .. n) : I = {j \in 1 .. n : Fails(rule, RemoveAt(s, j), expected)}
  OBVIOUS
<1>3. PICK i : i = IF I # {} THEN Min(I) ELSE 0
  OBVIOUS
<1>4. PICK fewer : fewer = [j \in 1 .. n |-> RemoveAt(s, j)] /\ Len(fewer) = n
  <2>1. Len([j \in 1 .. n |-> RemoveAt(s, j)]) = n
    OBVIOUS
  <2> QED BY <2>1
<1>5. SelectInSeq(fewer, LAMBDA less : Matches(less, rule) # expected) = i
  <2>1. {j \in 1 .. n : Matches(fewer[j], rule) # expected} = I
    BY <1>2, <1>4 DEF Fails
  <2> QED BY <1>3, <1>4, <2>1 DEF SelectInSeq
<1>6. new = IF i = 0 THEN s ELSE RemoveAt(s, i)
  BY <1>1, <1>4, <1>5 DEF WithoutFirst
<1>7. i \in 0 .. n /\ (i = 0 => I = {}) /\ (I # {} => i \in I) /\ (I = {} => i = 0)
  BY <1>3, FirstOfSome
<1>8. CASE i = 0
  <2>1. new = s
    BY <1>6, <1>8
  <2>2. Minimal(rule, s, expected)
    BY <1>1, <1>2, <1>7, <1>8 DEF Minimal, Fails
  <2> QED BY <2>1, <2>2
<1>9. CASE i # 0
  <2>1. i \in 1 .. n /\ Fails(rule, RemoveAt(s, i), expected)
    BY <1>2, <1>7, <1>9
  <2>2. new = RemoveAt(s, i)
    BY <1>6, <1>9
  <2>3. new \in Seq(E)
    <3>1. RemovedAt(new, s, i)
      BY <1>1, <2>1, <2>2 DEF RemovedAt
    <3> QED BY <3>1, RemoveShape
  <2>4. ~Minimal(rule, s, expected)
    BY <1>1, <2>1 DEF Minimal, Fails
  <2> QED BY <1>1, <2>1, <2>2, <2>3, <2>4
<1> QED BY <1>8, <1>9

LEMMA RemovedPart ==
  ASSUME NEW E, NEW events \in Seq(E), NEW s \in Seq(E), PartOf(s, events),
         NEW i, NEW new, RemovedAt(new, s, i)
  PROVE  PartOf(new, events) /\ Len(new) = Len(s) - 1
<1>1. PICK n \in Nat : n = Len(s) /\ DOMAIN s = 1 .. n /\ n >= 1 /\ i \in 1 .. n
  <2>1. i \in 1 .. Len(s)
    BY DEF RemovedAt
  <2> QED BY <2>1, SequenceShape
<1>2. PICK N \in Nat : N = Len(events) /\ DOMAIN events = 1 .. N
  BY SequenceShape
<1>3. PICK at \in [1 .. n -> 1 .. N] :
        /\ \A j, k \in 1 .. n : j < k => at[j] < at[k]
        /\ \A j \in 1 .. n : s[j] = events[at[j]]
  BY <1>1, <1>2 DEF PartOf
<1>4. /\ new \in Seq(E) /\ Len(new) = n - 1
      /\ \A j \in 1 .. n - 1 : new[j] = IF j < i THEN s[j] ELSE s[j + 1]
  <2>1. new \in Seq(E) /\ Shortened(new, s, i)
    BY RemoveShape
  <2> QED BY <1>1, <2>1 DEF Shortened
<1>5. PICK fewer : fewer = [j \in 1 .. n - 1 |-> IF j < i THEN at[j] ELSE at[j + 1]]
  OBVIOUS
<1>6. \A j \in 1 .. n - 1 : j \in 1 .. n /\ j + 1 \in 1 .. n
  BY <1>1
<1>7. fewer \in [1 .. n - 1 -> 1 .. N]
  BY <1>3, <1>5, <1>6
<1>8. \A j, k \in 1 .. n - 1 : j < k => fewer[j] < fewer[k]
  <2>1. SUFFICES ASSUME NEW j \in 1 .. n - 1, NEW k \in 1 .. n - 1, j < k
                 PROVE  fewer[j] < fewer[k]
    OBVIOUS
  <2>2. j < k /\ j < k + 1 /\ j + 1 < k + 1 /\ (~(j < i) => ~(k < i))
    BY <1>1, <2>1
  <2> QED BY <1>3, <1>5, <1>6, <2>1, <2>2
<1>9. DOMAIN new = 1 .. n - 1 /\ new = [j \in 1 .. n - 1 |-> new[j]]
  BY <1>4, LenProperties
<1>10. \A j \in 1 .. n - 1 : new[j] = events[fewer[j]]
  BY <1>3, <1>4, <1>5, <1>6
<1>11. new = [j \in DOMAIN fewer |-> events[fewer[j]]]
  BY <1>7, <1>9, <1>10
<1>12. PartOf(new, events)
  <2>1. fewer \in [DOMAIN new -> DOMAIN events] /\ DOMAIN fewer = 1 .. n - 1
    BY <1>2, <1>7, <1>9
  <2> QED BY <1>8, <1>11, <2>1 DEF PartOf
<1> QED BY <1>1, <1>4, <1>12

\* What is left after each round.
Rounds(left, E, rule, events, expected) ==
  /\ left[0] = events
  /\ \A k \in 1 .. Len(events) : left[k] = WithoutFirst(rule, left[k - 1], expected)
  /\ \A k \in 0 .. Len(events) : left[k] \in Seq(E)
  /\ MinimizeCounterexample(rule, [events |-> events, expected |-> expected]) =
       IF Matches(events, rule) = expected THEN [events |-> events, expected |-> expected]
       ELSE [events |-> left[Len(events)], expected |-> expected]

LEMMA RoundsExist ==
  ASSUME NEW E, NEW events \in Seq(E), NEW rule, NEW expected
  PROVE  \E left : Rounds(left, E, rule, events, expected)
<1>1. PICK n \in Nat : n = Len(events)
  BY SequenceShape
<1> DEFINE Defines(f) == f = [k \in 0 .. n |->
                                IF k = 0 THEN events ELSE WithoutFirst(rule, f[k - 1], expected)]
           left == CHOOSE f : Defines(f)
           step == [p \in (1 .. n) \X Seq(E) |-> WithoutFirst(rule, p[2], expected)]
<1>2. step \in Steps(n, Seq(E))
  <2>1. \A s \in Seq(E) : WithoutFirst(rule, s, expected) \in Seq(E)
    BY WithoutFirstShape
  <2> QED BY <2>1 DEF Steps
<1>3. PICK stage : StagesOf(stage, n, Seq(E), events, step)
  <2> HIDE DEF step
  <2> QED BY <1>2, StagesExist
<1>4. \A k \in 1 .. n : /\ k - 1 \in 0 .. n /\ stage[k - 1] \in Seq(E)
                        /\ stage[k] = WithoutFirst(rule, stage[k - 1], expected)
  <2>1. SUFFICES ASSUME NEW k \in 1 .. n
                 PROVE  /\ k - 1 \in 0 .. n /\ stage[k - 1] \in Seq(E)
                        /\ stage[k] = WithoutFirst(rule, stage[k - 1], expected)
    OBVIOUS
  <2>2. k - 1 \in 0 .. n
    BY <1>1
  <2>3. stage[k - 1] \in Seq(E) /\ stage[k] = step[<<k, stage[k - 1]>>]
    <3> HIDE DEF step
    <3> QED BY <1>3, <2>2 DEF StagesOf
  <2> QED BY <2>2, <2>3
<1>5. PICK f : f = [k \in 0 .. n |-> stage[k]]
  OBVIOUS
<1>6. Defines(f)
  <2>1. \A k \in 0 .. n : k = 0 \/ k \in 1 .. n
    BY <1>1
  <2>2. \A k \in 0 .. n :
          stage[k] = IF k = 0 THEN events ELSE WithoutFirst(rule, f[k - 1], expected)
    BY <1>3, <1>4, <1>5, <2>1 DEF StagesOf
  <2> QED BY <1>5, <2>2
<1>7. Defines(left)
  <2> HIDE DEF Defines
  <2> QED BY <1>6
<1>8. /\ left[0] = events
      /\ \A k \in 1 .. n : left[k] = WithoutFirst(rule, left[k - 1], expected)
  <2>1. 0 \in 0 .. n /\ \A k \in 1 .. n : k \in 0 .. n /\ k # 0
    BY <1>1
  <2> HIDE DEF left
  <2> QED BY <1>7, <2>1
<1>9. \A k \in 0 .. n : left[k] \in Seq(E)
  <2> DEFINE Reached == {k \in Nat : k <= n => left[k] \in Seq(E)}
  <2>1. 0 \in Reached
    <3> HIDE DEF left
    <3> QED BY <1>8
  <2>2. \A k \in Nat : k \in Reached => k + 1 \in Reached
    <3>1. SUFFICES ASSUME NEW k \in Nat, k + 1 <= n, left[k] \in Seq(E)
                   PROVE  left[k + 1] \in Seq(E)
      <4> HIDE DEF left
      <4> QED OBVIOUS
    <3>2. k + 1 \in 1 .. n /\ (k + 1) - 1 = k
      BY <3>1
    <3> HIDE DEF left
    <3> QED BY <1>8, <3>1, <3>2, WithoutFirstShape
  <2>3. \A k \in Nat : k \in Reached
    <3> HIDE DEF Reached
    <3> QED BY <2>1, <2>2, Induction
  <2> HIDE DEF left
  <2> QED BY <2>3
<1>10. MinimizeCounterexample(rule, [events |-> events, expected |-> expected]) =
         IF Matches(events, rule) = expected THEN [events |-> events, expected |-> expected]
         ELSE [events |-> left[n], expected |-> expected]
  BY <1>1 DEF MinimizeCounterexample
<1> HIDE DEF left
<1> QED BY <1>1, <1>8, <1>9, <1>10 DEF Rounds

\* As long as a round finds an event to leave out, the case is one event shorter.
LEMMA CounterexampleIsMinimal ==
  ASSUME NEW E, NEW events \in Seq(E), NEW rule, NEW expected, Fails(rule, events, expected),
         NEW case, case = MinimizeCounterexample(rule, [events |-> events, expected |-> expected])
  PROVE  /\ PartOf(case.events, events)
         /\ Fails(rule, case.events, case.expected)
         /\ Minimal(rule, case.events, case.expected)
<1>1. PICK n \in Nat : n = Len(events) /\ DOMAIN events = 1 .. n
  BY SequenceShape
<1>2. PICK left : Rounds(left, E, rule, events, expected)
  BY RoundsExist
<1>3. /\ left[0] = events
      /\ \A k \in 1 .. n : left[k] = WithoutFirst(rule, left[k - 1], expected)
      /\ \A k \in 0 .. n : left[k] \in Seq(E)
      /\ case = [events |-> left[n], expected |-> expected]
  BY <1>1, <1>2 DEF Rounds, Fails
<1> DEFINE Good(k) == /\ PartOf(left[k], events) /\ Fails(rule, left[k], expected)
                      /\ Minimal(rule, left[k], expected) \/ Len(left[k]) = n - k
           Reached == {k \in Nat : k <= n => Good(k)}
<1>4. 0 \in Reached
  <2>1. PICK at : at = [i \in 1 .. n |-> i]
    OBVIOUS
  <2>2. events = [i \in 1 .. n |-> events[i]]
    BY <1>1, LenProperties
  <2>3. events = [i \in DOMAIN at |-> events[at[i]]] /\ at \in [1 .. n -> 1 .. n]
    BY <2>1, <2>2
  <2>4. \A i, j \in DOMAIN at : i < j => at[i] < at[j]
    BY <2>1
  <2>5. PartOf(events, events)
    BY <1>1, <2>3, <2>4 DEF PartOf
  <2> QED BY <1>1, <1>3, <2>5
<1>5. \A k \in Nat : k \in Reached => k + 1 \in Reached
  <2>1. SUFFICES ASSUME NEW k \in Nat, k + 1 <= n, Good(k) PROVE Good(k + 1)
    <3> HIDE DEF Good
    <3> QED OBVIOUS
  <2>2. k + 1 \in 1 .. n /\ (k + 1) - 1 = k /\ k \in 0 .. n
    BY <2>1
  <2>3. PICK old \in Seq(E) : old = left[k]
    BY <1>3, <2>2
  <2>4. PICK new \in Seq(E) : new = left[k + 1] /\ new = WithoutFirst(rule, old, expected)
    BY <1>3, <2>2, <2>3
  <2>5. \/ new = old /\ Minimal(rule, old, expected)
        \/ /\ ~Minimal(rule, old, expected) /\ Fails(rule, new, expected)
           /\ \E i \in 1 .. Len(old) : new = RemoveAt(old, i)
    BY <2>4, WithoutFirstShape
  <2>6. CASE new = old /\ Minimal(rule, old, expected)
    BY <2>1, <2>3, <2>4, <2>6
  <2>7. CASE /\ ~Minimal(rule, old, expected) /\ Fails(rule, new, expected)
             /\ \E i \in 1 .. Len(old) : new = RemoveAt(old, i)
    <3>1. PICK i \in 1 .. Len(old) : new = RemoveAt(old, i)
      BY <2>7
    <3>2. PartOf(new, events) /\ Len(new) = Len(old) - 1
      <4>1. RemovedAt(new, old, i)
        BY <3>1 DEF RemovedAt
      <4>2. PartOf(old, events)
        BY <2>1, <2>3
      <4> QED BY <4>1, <4>2, RemovedPart
    <3>3. Len(old) = n - k
      BY <2>1, <2>3, <2>7
    <3>4. Len(new) = n - (k + 1)
      BY <3>2, <3>3
    <3> QED BY <2>4, <2>7, <3>2, <3>4
  <2> QED BY <2>5, <2>6, <2>7
<1>6. Good(n)
  <2>1. n \in Reached
    <3> HIDE DEF Reached
    <3> QED BY <1>4, <1>5, Induction
  <2> HIDE DEF Good
  <2> QED BY <2>1
<1>7. Minimal(rule, left[n], expected)
  <2>1. SUFFICES ASSUME Len(left[n]) = 0 PROVE Minimal(rule, left[n], expected)
    BY <1>6
  <2>2. DOMAIN left[n] = 1 .. 0
    BY <1>3, <2>1, SequenceShape
  <2> QED BY <2>2 DEF Minimal
<1> QED BY <1>3, <1>6, <1>7

----------------------------------------------------------------------------
(***************************************************************************)
(* Another event: where it stands in its group, and what follows for the   *)
(* matches of the group.                                                   *)
(***************************************************************************)
Added(new, events, e) == new = Append(events, e)

LEMMA NextGroup ==
  ASSUME NEW E, NEW events \in Seq(E), NEW e \in E, NEW new, Added(new, events, e),
         NEW paths, NEW key
  PROVE  OrderedGroup(new, paths, key) = AddInOrder(paths, key, OrderedGroup(events, paths, key), e)
<1>1. PICK n \in Nat : n = Len(events) /\ DOMAIN events = 1 .. n
                       /\ \A i \in 1 .. n : events[i] \in E
  BY SequenceShape
<1>2. /\ new \in Seq(E) /\ Len(new) = n + 1 /\ new[n + 1] = e
      /\ \A i \in 1 .. n : new[i] = events[i]
  BY <1>1, AppendProperties DEF Added
<1>3. PICK N \in Nat : N = n + 1 /\ DOMAIN new = 1 .. N /\ \A i \in 1 .. N : new[i] \in E
  BY <1>1, <1>2, SequenceShape
<1>4. PICK old : OrderStages(old, E, events, n, paths, key)
  <2>1. DOMAIN events = 1 .. n /\ \A i \in 1 .. n : events[i] \in E
    BY <1>1
  <2> QED BY <2>1, OrderedGroupStages
<1>5. PICK stage : OrderStages(stage, E, new, N, paths, key)
  <2>1. DOMAIN new = 1 .. N /\ \A i \in 1 .. N : new[i] \in E
    BY <1>3
  <2> QED BY <2>1, OrderedGroupStages
<1> DEFINE Reached == {k \in Nat : k <= n => stage[k] = old[k]}
<1>6. 0 \in Reached
  BY <1>4, <1>5 DEF OrderStages
<1>7. \A k \in Nat : k \in Reached => k + 1 \in Reached
  <2>1. SUFFICES ASSUME NEW k \in Nat, k + 1 <= n, stage[k] = old[k]
                 PROVE  stage[k + 1] = old[k + 1]
    OBVIOUS
  <2>2. k + 1 \in 1 .. n /\ k + 1 \in 1 .. N /\ (k + 1) - 1 = k
    BY <1>3, <2>1
  <2>3. stage[k + 1] = AddInOrder(paths, key, stage[k], new[k + 1])
    BY <1>5, <2>2 DEF OrderStages
  <2>4. old[k + 1] = AddInOrder(paths, key, old[k], events[k + 1])
    BY <1>4, <2>2 DEF OrderStages
  <2> QED BY <1>2, <2>1, <2>2, <2>3, <2>4
<1>8. stage[n] = old[n]
  <2>1. n \in Reached
    <3> HIDE DEF Reached
    <3> QED BY <1>6, <1>7, Induction
  <2> QED BY <2>1
<1>9. stage[N] = AddInOrder(paths, key, stage[n], e)
  <2>1. N \in 1 .. N /\ N - 1 = n /\ new[N] = e
    BY <1>2, <1>3
  <2> QED BY <1>5, <2>1 DEF OrderStages
<1> QED BY <1>4, <1>5, <1>8, <1>9 DEF OrderStages

Found(group, rule) ==
  IF rule.ordered THEN MatchOrdered(group, rule.stages, rule.within_seconds)
  ELSE MatchUnordered(group, rule.stages, rule.within_seconds)

\* An unordered rule finds one match when every stage takes an event, or none.
LEMMA UnorderedShape ==
  ASSUME NEW E, NEW group \in Seq(E), NEW stages, NEW n \in Nat, DOMAIN stages = 1 .. n,
         NEW within, NEW found, found = MatchUnordered(group, stages, within),
         NEW taken, taken = TakeStages(group, stages)
  PROVE  /\ found \in Seq(Seq(E)) /\ taken \in Takings(E)
         /\ found # << >> <=> ~taken.failed /\ WithinWindow(taken.matched, within)
<1>1. PICK stage : Takes(stage, E, group, n, stages)
  BY TakeStagesStages
<1>2. taken \in Takings(E)
  <2>1. n \in 0 .. n
    OBVIOUS
  <2> QED BY <1>1, <2>1 DEF Takes
<1>3. PICK matched \in Seq(E) : matched = taken.matched
  BY <1>2 DEF Takings
<1>4. taken.failed \in BOOLEAN
  BY <1>2 DEF Takings
<1>5. found = IF taken.failed \/ ~WithinWindow(matched, within) THEN << >> ELSE <<matched>>
  BY <1>3 DEF MatchUnordered, MatchOf
<1>6. << >> \in Seq(Seq(E)) /\ <<matched>> \in Seq(Seq(E)) /\ <<matched>> # << >>
  BY <1>3, EmptyRange
<1>7. CASE taken.failed \/ ~WithinWindow(matched, within)
  BY <1>2, <1>3, <1>5, <1>6, <1>7
<1>8. CASE ~taken.failed /\ WithinWindow(matched, within)
  BY <1>2, <1>3, <1>5, <1>6, <1>8
<1> QED BY <1>4, <1>7, <1>8

LEMMA FoundShape ==
  ASSUME NEW E, NEW group \in Seq(E), NEW rule, NEW n, Staged(rule, n)
  PROVE  /\ Found(group, rule) \in Seq(Seq(E))
         /\ group = << >> => Found(group, rule) = << >>
<1>1. n \in Nat /\ n >= 1 /\ DOMAIN rule.stages = 1 .. n
  BY DEF Staged
<1>2. PICK stages, within : stages = rule.stages /\ within = rule.within_seconds
  OBVIOUS
<1>3. PICK m \in Nat : m = Len(group) /\ DOMAIN group = 1 .. m /\ \A i \in 1 .. m : group[i] \in E
  BY SequenceShape
<1>4. CASE rule.ordered
  <2>1. PICK stage : OrderedScan(stage, E, group, m, stages, within)
    <3>1. DOMAIN group = 1 .. m /\ \A i \in 1 .. m : group[i] \in E
      BY <1>3
    <3> QED BY <3>1, ScanStages
  <2>2. /\ MatchOrdered(group, stages, within) = stage[m].matches /\ stage[m] \in Scans(E)
        /\ stage[0] = [matched |-> << >>, matches |-> << >>]
    <3>1. m \in 0 .. m
      BY <1>3
    <3> QED BY <2>1, <3>1 DEF OrderedScan
  <2>3. Found(group, rule) = stage[m].matches
    BY <1>2, <1>4, <2>2 DEF Found
  <2>4. stage[m].matches \in Seq(Seq(E))
    BY <2>2 DEF Scans
  <2>5. group = << >> => m = 0
    BY <1>3
  <2> QED BY <2>2, <2>3, <2>4, <2>5
<1>5. CASE ~rule.ordered
  <2>1. PICK found, taken : found = MatchUnordered(group, stages, within) /\ taken = TakeStages(group, stages)
    OBVIOUS
  <2>2. Found(group, rule) = found
    BY <1>2, <1>5, <2>1 DEF Found
  <2>3. /\ found \in Seq(Seq(E)) /\ taken \in Takings(E)
        /\ found # << >> <=> ~taken.failed /\ WithinWindow(taken.matched, within)
    BY <1>1, <1>2, <2>1, UnorderedShape
  <2>4. ASSUME group = << >> PROVE taken.failed
    <3>1. PICK stage : Takes(stage, E, group, n, stages)
      BY <1>1, <1>2, TakeStagesStages
    <3>2. ASSUME NEW k \in 1 .. n, stage[k - 1].left = << >>
          PROVE  stage[k].failed /\ stage[k].left = << >>
      <4>1. k - 1 \in 0 .. n
        BY <1>1
      <4>2. PICK old \in Takings(E) : old = stage[k - 1] /\ stage[k] = Take(old, stages[k])
        BY <3>1, <4>1 DEF Takes
      <4>3. StageTaken(stage[k], old, stages[k])
        BY <4>2, TakeShape
      <4>4. Len(old.left) = 0
        BY <3>2, <4>2
      <4>5. stage[k] = [old EXCEPT !.failed = TRUE]
        BY <4>3, <4>4 DEF StageTaken
      <4> QED BY <3>2, <4>2, <4>5 DEF Takings
    <3>3. stage[0].left = << >>
      BY <2>4, <3>1 DEF Takes
    <3> DEFINE Reached == {k \in Nat : k <= n => stage[k].left = << >>}
    <3>4. 0 \in Reached
      BY <3>3
    <3>5. \A k \in Nat : k \in Reached => k + 1 \in Reached
      <4>1. ASSUME NEW k \in Nat, k + 1 <= n, k \in Reached
            PROVE  stage[k + 1].left = << >>
        <5>1. k + 1 \in 1 .. n /\ (k + 1) - 1 = k /\ stage[k].left = << >>
          BY <1>1, <4>1
        <5> QED BY <3>2, <5>1
      <4> QED BY <4>1
    <3>6. stage[n].failed
      <4>1. n \in 1 .. n /\ n - 1 \in Nat /\ n - 1 <= n
        BY <1>1
      <4>2. n - 1 \in Reached
        <5> HIDE DEF Reached
        <5> QED BY <3>4, <3>5, <4>1, Induction
      <4> QED BY <3>2, <4>1, <4>2
    <3> QED BY <2>1, <3>1, <3>6 DEF Takes
  <2> QED BY <2>2, <2>3, <2>4
<1> QED BY <1>4, <1>5

\* A rule matches when it finds something in some group.
LEMMA MatchesMeans ==
  ASSUME NEW E, NEW events \in Seq(E), NEW rule, NEW n, Staged(rule, n)
  PROVE  Matches(events, rule) <=>
           \E key : Found(OrderedGroup(events, rule.group_by, key), rule) # << >>
<1> DEFINE Group(key) == OrderedGroup(events, rule.group_by, key)
<1>1. PICK keys : keys = GroupKeys(events, rule.group_by)
  OBVIOUS
<1>2. PICK K : keys \in Seq(K) /\ KeysOf(keys, events, rule.group_by)
  BY <1>1, KeysShape
<1>3. PICK l \in Nat : /\ l = Len(keys) /\ DOMAIN keys = 1 .. l /\ \A i \in 1 .. l : keys[i] \in K
                       /\ \A key : key \in Range(keys) <=> \E i \in 1 .. l : keys[i] = key
  BY <1>2, SequenceShape
<1>4. PICK m \in Nat : m = Len(events) /\ DOMAIN events = 1 .. m
                       /\ \A i \in 1 .. m : events[i] \in E
  BY SequenceShape
<1>5. ASSUME NEW key
      PROVE  /\ Group(key) \in Seq(E)
             /\ Group(key) # << >> => \E i \in 1 .. m : GroupKey(events[i], rule.group_by) = key
  <2>1. PICK stage : OrderStages(stage, E, events, m, rule.group_by, key)
    <3>1. DOMAIN events = 1 .. m /\ \A i \in 1 .. m : events[i] \in E
      BY <1>4
    <3> QED BY <3>1, OrderedGroupStages
  <2>2. Group(key) = stage[m] /\ stage[m] \in Seq(E)
    <3>1. m \in 0 .. m
      BY <1>4
    <3> QED BY <2>1, <3>1 DEF OrderStages
  <2>3. ASSUME \A i \in 1 .. m : GroupKey(events[i], rule.group_by) # key
        PROVE  stage[m] = << >>
    <3> DEFINE Reached == {k \in Nat : k <= m => stage[k] = << >>}
    <3>1. 0 \in Reached
      BY <2>1 DEF OrderStages
    <3>2. \A k \in Nat : k \in Reached => k + 1 \in Reached
      <4>1. SUFFICES ASSUME NEW k \in Nat, k + 1 <= m, stage[k] = << >>
                     PROVE  stage[k + 1] = << >>
        OBVIOUS
      <4>2. k + 1 \in 1 .. m /\ (k + 1) - 1 = k
        BY <4>1
      <4>3. stage[k + 1] = AddInOrder(rule.group_by, key, stage[k], events[k + 1])
        BY <2>1, <4>2 DEF OrderStages
      <4> QED BY <2>3, <4>1, <4>2, <4>3 DEF AddInOrder
    <3>3. m \in Reached
      <4> HIDE DEF Reached
      <4> QED BY <3>1, <3>2, Induction
    <3> QED BY <3>3
  <2> QED BY <2>2, <2>3
<1>6. ASSUME NEW key
      PROVE  /\ MatchesOfGroup(events, rule, key) \in Seq([key : {key}, events : Seq(E)])
             /\ MatchesOfGroup(events, rule, key) = << >> <=> Found(Group(key), rule) = << >>
  <2>1. PICK matches : matches = Found(Group(key), rule) /\ matches \in Seq(Seq(E))
    BY <1>5, FoundShape
  <2>2. PICK emitted : emitted = SuppressAndDedupe(matches, rule, key)
    OBVIOUS
  <2>3. emitted \in Seq(Range(matches)) /\ (emitted = << >> => matches = << >>)
    BY <2>1, <2>2, EmittedShape
  <2>4. PICK found : found = MatchesOfGroup(events, rule, key)
    OBVIOUS
  <2>5. found = [i \in DOMAIN emitted |-> [key |-> key, events |-> emitted[i]]]
    BY <2>1, <2>2, <2>4 DEF MatchesOfGroup, Keyed, Found
  <2>6. PICK k \in Nat : k = Len(emitted) /\ DOMAIN emitted = 1 .. k
                         /\ \A i \in 1 .. k : emitted[i] \in Range(matches)
    BY <2>3, SequenceShape
  <2>7. \A x \in Range(matches) : x \in Seq(E)
    BY <2>1, RangeIn
  <2>8. found \in Seq([key : {key}, events : Seq(E)]) /\ Len(found) = k
    <3>1. \A i \in 1 .. k : [key |-> key, events |-> emitted[i]] \in [key : {key}, events : Seq(E)]
      BY <2>6, <2>7
    <3> QED BY <2>5, <2>6, <3>1
  <2>9. found = << >> <=> k = 0
    BY <2>8, EmptySeq
  <2>10. emitted = << >> <=> k = 0
    BY <2>3, <2>6, EmptySeq
  <2>11. matches = << >> => k = 0
    <3>1. SUFFICES ASSUME matches = << >>, k # 0 PROVE FALSE
      OBVIOUS
    <3>2. 1 \in 1 .. k
      BY <3>1
    <3>3. emitted[1] \in Range(matches)
      BY <2>6, <3>2
    <3> QED BY <3>1, <3>3, EmptyRange
  <2> QED BY <2>1, <2>3, <2>4, <2>8, <2>9, <2>10, <2>11
<1>7. PICK F : F = [key : K, events : Seq(E)]
  OBVIOUS
<1>8. PICK seqs : seqs = [i \in 1 .. l |-> MatchesOfGroup(events, rule, keys[i])]
  OBVIOUS
<1> HIDE DEF Group
<1>9. \A i \in 1 .. l : seqs[i] \in Seq(F)
  <2>1. SUFFICES ASSUME NEW i \in 1 .. l PROVE seqs[i] \in Seq(F)
    OBVIOUS
  <2>2. PICK key \in K : key = keys[i]
    BY <1>3
  <2>3. PICK found : found = MatchesOfGroup(events, rule, key)
    OBVIOUS
  <2>4. PICK G : G = [key : {key}, events : Seq(E)]
    OBVIOUS
  <2>5. found \in Seq(G)
    BY <1>6, <2>3, <2>4
  <2>6. \A x \in G : x \in F
    BY <1>7, <2>4
  <2>7. found \in Seq(F)
    <3>1. /\ Len(found) \in Nat /\ found = [j \in 1 .. Len(found) |-> found[j]]
          /\ \A j \in 1 .. Len(found) : found[j] \in G
      BY <2>5, SequenceShape, LenProperties
    <3>2. \A j \in 1 .. Len(found) : found[j] \in F
      BY <2>6, <3>1
    <3> QED BY <3>1, <3>2
  <2> QED BY <1>8, <2>2, <2>3, <2>7
<1>10. DOMAIN seqs = 1 .. l /\ Len(seqs) = l
  BY <1>8
<1>11. PICK all : all = EvaluateSequenceRule(events, rule) /\ all = FlattenSeq(seqs)
  BY <1>1, <1>3, <1>8 DEF EvaluateSequenceRule
<1>12. AllOf(all, seqs) /\ (l # 0 => all \in Seq(F))
  BY <1>9, <1>10, <1>11, FlattenShape
<1>13. all = << >> <=> Range(all) = {}
  <2>1. CASE l = 0
    <3>1. seqs = << >>
      BY <1>8, <2>1
    <3> QED BY <1>10, <1>11, <2>1, <3>1, EmptyRange DEF FlattenSeq
  <2>2. CASE l # 0
    <3>1. Len(all) \in Nat /\ \A e : e \in Range(all) <=> \E i \in 1 .. Len(all) : all[i] = e
      BY <1>12, <2>2, SequenceShape
    <3>2. Range(all) = {} => Len(all) = 0
      <4>1. Len(all) # 0 => 1 \in 1 .. Len(all)
        BY <3>1
      <4> QED BY <3>1, <4>1
    <3> QED BY <1>12, <2>2, <3>2, EmptySeq, EmptyRange
  <2> QED BY <2>1, <2>2
<1>14. Range(all) # {} <=> \E i \in 1 .. l : MatchesOfGroup(events, rule, keys[i]) # << >>
  <2>1. \A i \in 1 .. l : Range(seqs[i]) = {} <=> MatchesOfGroup(events, rule, keys[i]) = << >>
    <3>1. SUFFICES ASSUME NEW i \in 1 .. l PROVE Range(seqs[i]) = {} <=> seqs[i] = << >>
      BY <1>8
    <3>2. PICK s : s = seqs[i] /\ s \in Seq(F)
      BY <1>9
    <3>3. Len(s) \in Nat /\ \A e : e \in Range(s) <=> \E j \in 1 .. Len(s) : s[j] = e
      BY <3>2, SequenceShape
    <3>4. Range(s) = {} => Len(s) = 0
      <4>1. Len(s) # 0 => 1 \in 1 .. Len(s)
        BY <3>3
      <4> QED BY <3>3, <4>1
    <3> QED BY <3>2, <3>4, EmptySeq, EmptyRange
  <2>2. \A q : q \in Range(all) <=> \E i \in 1 .. l : q \in Range(seqs[i])
    BY <1>10, <1>12 DEF AllOf
  <2> QED BY <2>1, <2>2
<1>15. ASSUME NEW key, Found(Group(key), rule) # << >>
       PROVE  \E i \in 1 .. l : keys[i] = key
  <2>1. Group(key) # << >>
    BY <1>5, <1>15, FoundShape
  <2>2. PICK i \in 1 .. m : GroupKey(events[i], rule.group_by) = key
    BY <1>5, <2>1
  <2>3. events[i] \in Range(events)
    BY <1>4, <2>2 DEF Range
  <2> QED BY <1>2, <1>3, <2>2, <2>3 DEF KeysOf
<1>16. Matches(events, rule) <=> \E key : Found(Group(key), rule) # << >>
  BY <1>6, <1>11, <1>13, <1>14, <1>15 DEF Matches
<1> QED BY <1>16 DEF Group

\* A group with another event at position q.
With(new, group, e, q) ==
  /\ q \in 1 .. Len(group) + 1 /\ Len(new) = Len(group) + 1
  /\ \A j \in 1 .. Len(group) + 1 :
       new[j] = IF j < q THEN group[j] ELSE IF j = q THEN e ELSE group[j - 1]

Open(stages, scan) == stages[Len(scan.matched) + 1]

LEMMA SkippedEvent ==
  ASSUME NEW E, NEW scan \in Scans(E), NEW e \in E, NEW stages, NEW within
  PROVE  /\ ~EventMatchesStage(e, Open(stages, scan)) => Advance(stages, within, scan, e) = scan
         /\ EventMatchesStage(e, Open(stages, scan)) =>
              LET l == Len(scan.matched) + 1 IN
              /\ l < Len(stages) => Len(Advance(stages, within, scan, e).matched) = l
              /\ ~(l < Len(stages)) => Advance(stages, within, scan, e).matched = << >>
<1>1. PICK l \in Nat : l = Len(scan.matched) + 1 /\ scan.matched \in Seq(E)
  <2>1. scan.matched \in Seq(E)
    BY DEF Scans
  <2> QED BY <2>1, SequenceShape
<1>2. PICK matched : matched = Append(scan.matched, e) /\ Len(matched) = l
  <2>1. PICK old \in Seq(E) : old = scan.matched
    BY <1>1
  <2>2. Len(Append(old, e)) = Len(old) + 1
    BY AppendProperties
  <2> QED BY <1>1, <2>1, <2>2
<1>3. PICK new : new = Advance(stages, within, scan, e)
  OBVIOUS
<1>4. new = IF ~EventMatchesStage(e, stages[l]) THEN scan
            ELSE IF l < Len(stages) THEN [scan EXCEPT !.matched = matched]
            ELSE [matched |-> << >>,
                  matches |-> IF WithinWindow(matched, within)
                              THEN Append(scan.matches, matched) ELSE scan.matches]
  BY <1>2, <1>3 DEF Advance
<1>5. [scan EXCEPT !.matched = matched].matched = matched
  BY DEF Scans
<1> QED BY <1>1, <1>2, <1>3, <1>4, <1>5 DEF Open

LEMMA SkippedInScan ==
  ASSUME NEW E, NEW group \in Seq(E), NEW e \in E, NEW new \in Seq(E), NEW q, With(new, group, e, q),
         NEW stages, NEW within, NEW stage, OrderedScan(stage, E, group, Len(group), stages, within),
         ~EventMatchesStage(e, Open(stages, stage[q - 1]))
  PROVE  MatchOrdered(new, stages, within) = MatchOrdered(group, stages, within)
<1>1. PICK n \in Nat : n = Len(group) /\ DOMAIN group = 1 .. n /\ \A i \in 1 .. n : group[i] \in E
  BY SequenceShape
<1>2. PICK N \in Nat : N = n + 1 /\ DOMAIN new = 1 .. N /\ \A i \in 1 .. N : new[i] \in E
  BY <1>1, SequenceShape DEF With
<1>3. q \in 1 .. N /\ q - 1 \in 0 .. n
  BY <1>1, <1>2 DEF With
<1>4. PICK scan : OrderedScan(scan, E, new, N, stages, within)
  <2>1. DOMAIN new = 1 .. N /\ \A i \in 1 .. N : new[i] \in E
    BY <1>2
  <2> QED BY <2>1, ScanStages
<1> DEFINE Behind(k) == IF k < q THEN k ELSE k - 1
           Reached == {k \in Nat : k <= N => scan[k] = stage[Behind(k)]}
<1>5. 0 \in Reached
  BY <1>3, <1>4 DEF OrderedScan
<1>6. \A k \in Nat : k \in Reached => k + 1 \in Reached
  <2>1. SUFFICES ASSUME NEW k \in Nat, k + 1 <= N, scan[k] = stage[Behind(k)]
                 PROVE  scan[k + 1] = stage[Behind(k + 1)]
    <3> HIDE DEF Behind
    <3> QED OBVIOUS
  <2>2. k + 1 \in 1 .. N /\ (k + 1) - 1 = k /\ k \in 0 .. n
    BY <1>2, <2>1
  <2>3. scan[k + 1] = Advance(stages, within, scan[k], new[k + 1])
    BY <1>4, <2>2 DEF OrderedScan
  <2>4. CASE k + 1 < q
    <3>1. k + 1 \in 1 .. n /\ k < q /\ new[k + 1] = group[k + 1]
      BY <1>1, <1>2, <1>3, <2>1, <2>2, <2>4 DEF With
    <3>2. stage[k + 1] = Advance(stages, within, stage[k], group[k + 1])
      BY <1>1, <2>2, <3>1 DEF OrderedScan
    <3> QED BY <2>1, <2>3, <2>4, <3>1, <3>2
  <2>5. CASE k + 1 = q
    <3>1. new[k + 1] = e /\ k < q /\ scan[k] = stage[k] /\ q - 1 = k
      BY <1>1, <1>2, <1>3, <2>1, <2>2, <2>5 DEF With
    <3>2. stage[k] \in Scans(E)
      BY <1>1, <2>2 DEF OrderedScan
    <3>3. scan[k + 1] = stage[k]
      BY <2>3, <3>1, <3>2, SkippedEvent
    <3> QED BY <2>2, <2>5, <3>3
  <2>6. CASE k + 1 > q
    <3>1. k \in 1 .. n /\ ~(k < q) /\ new[k + 1] = group[k]
      BY <1>1, <1>2, <1>3, <2>1, <2>2, <2>6 DEF With
    <3>2. stage[k] = Advance(stages, within, stage[k - 1], group[k])
      BY <1>1, <3>1 DEF OrderedScan
    <3>3. ~(k + 1 < q)
      BY <1>3, <2>6
    <3> QED BY <2>1, <2>2, <2>3, <3>1, <3>2, <3>3
  <2> QED BY <1>3, <2>4, <2>5, <2>6
<1>7. scan[N] = stage[n]
  <2>1. N \in Reached
    <3> HIDE DEF Reached
    <3> QED BY <1>5, <1>6, Induction
  <2>2. ~(N < q) /\ N - 1 = n
    BY <1>2, <1>3
  <2> QED BY <2>1, <2>2
<1> QED BY <1>1, <1>4, <1>7 DEF OrderedScan

LEMMA OpenStages ==
  ASSUME NEW E, NEW group \in Seq(E), NEW stages, Len(stages) \in Nat, Len(stages) >= 1, NEW within,
         NEW stage, OrderedScan(stage, E, group, Len(group), stages, within)
  PROVE  \A k \in 0 .. Len(group) : Len(stage[k].matched) \in 0 .. Len(stages) - 1
<1>1. PICK n \in Nat : n = Len(group) /\ \A i \in 1 .. n : group[i] \in E
  BY SequenceShape
<1> DEFINE Reached == {k \in Nat : k <= n => Len(stage[k].matched) \in 0 .. Len(stages) - 1}
<1>2. 0 \in Reached
  BY EmptyRange DEF OrderedScan
<1>3. \A k \in Nat : k \in Reached => k + 1 \in Reached
  <2>1. SUFFICES ASSUME NEW k \in Nat, k + 1 <= n, k \in Reached
                 PROVE  Len(stage[k + 1].matched) \in 0 .. Len(stages) - 1
    <3> DEFINE Least(i) == Len(stage[i].matched)
    <3> HIDE DEF Least
    <3> QED BY DEF Least
  <2>2. k + 1 \in 1 .. n /\ (k + 1) - 1 = k /\ k \in 0 .. n
        /\ Len(stage[k].matched) \in 0 .. Len(stages) - 1
    BY <1>1, <2>1
  <2>3. PICK scan \in Scans(E) : scan = stage[k]
    BY <1>1, <2>2 DEF OrderedScan
  <2>4. PICK e \in E : e = group[k + 1]
    BY <1>1, <2>2
  <2>5. stage[k + 1] = Advance(stages, within, scan, e)
    BY <1>1, <2>2, <2>3, <2>4 DEF OrderedScan
  <2>6. CASE ~EventMatchesStage(e, Open(stages, scan))
    BY <2>2, <2>3, <2>5, <2>6, SkippedEvent
  <2>7. CASE EventMatchesStage(e, Open(stages, scan))
    <3>1. PICK l \in Nat : l = Len(scan.matched) + 1 /\ l <= Len(stages)
      BY <2>2, <2>3
    <3>2. /\ l < Len(stages) => Len(stage[k + 1].matched) = l
          /\ ~(l < Len(stages)) => stage[k + 1].matched = << >>
      BY <2>5, <2>7, <3>1, SkippedEvent
    <3>3. CASE l < Len(stages)
      BY <3>1, <3>2, <3>3
    <3>4. CASE ~(l < Len(stages))
      BY <3>2, <3>4, EmptyRange
    <3> QED BY <3>3, <3>4
  <2> QED BY <2>6, <2>7
<1>4. \A k \in Nat : k \in Reached
  <2> HIDE DEF Reached
  <2> QED BY <1>2, <1>3, Induction
<1> QED BY <1>1, <1>4

\* Two events that the same stages ask for.
Alike(e, f, stages) ==
  \A i \in DOMAIN stages : EventMatchesStage(e, stages[i]) <=> EventMatchesStage(f, stages[i])

Unasked(e, stages) == \A i \in DOMAIN stages : ~EventMatchesStage(e, stages[i])

\* An event that the stage behind does not ask for is skipped.
LEMMA CopySkipped ==
  ASSUME NEW E, NEW group \in Seq(E), NEW e \in E, NEW new \in Seq(E), NEW q, With(new, group, e, q),
         NEW stages, NEW n \in Nat, n >= 2, Len(stages) = n, DOMAIN stages = 1 .. n,
         Differ(stages), NEW within, q # 1, Alike(e, group[q - 1], stages)
  PROVE  MatchOrdered(new, stages, within) = MatchOrdered(group, stages, within)
<1>1. PICK m \in Nat : m = Len(group) /\ DOMAIN group = 1 .. m /\ \A i \in 1 .. m : group[i] \in E
  BY SequenceShape
<1>2. PICK stage : OrderedScan(stage, E, group, m, stages, within)
  <2>1. DOMAIN group = 1 .. m /\ \A i \in 1 .. m : group[i] \in E
    BY <1>1
  <2> QED BY <2>1, ScanStages
<1>3. PICK p \in 1 .. m : p = q - 1 /\ p - 1 \in 0 .. m /\ p \in 0 .. m
  BY <1>1 DEF With
<1>4. PICK x \in E : x = group[p]
  BY <1>1
<1>5. PICK scan \in Scans(E) : scan = stage[p - 1]
  BY <1>2, <1>3 DEF OrderedScan
<1>6. PICK next : next = stage[p] /\ next = Advance(stages, within, scan, x)
  BY <1>2, <1>3, <1>4, <1>5 DEF OrderedScan
<1>7. PICK l \in 1 .. n : l = Len(scan.matched) + 1
  <2>1. Len(scan.matched) \in 0 .. n - 1
    BY <1>1, <1>2, <1>3, <1>5, OpenStages
  <2> QED BY <2>1
<1>8. \A i, j \in 1 .. n : i # j => ~(EventMatchesStage(e, stages[i]) /\ EventMatchesStage(e, stages[j]))
  BY DEF Differ, EventMatchesStage
<1>9. \A i \in 1 .. n : EventMatchesStage(e, stages[i]) <=> EventMatchesStage(x, stages[i])
  BY <1>3, <1>4 DEF Alike
<1>10. ~EventMatchesStage(e, Open(stages, next))
  <2>1. CASE ~EventMatchesStage(x, stages[l])
    <3>1. next = scan
      BY <1>5, <1>6, <1>7, <2>1, SkippedEvent DEF Open
    <3> QED BY <1>7, <1>9, <2>1, <3>1 DEF Open
  <2>2. CASE EventMatchesStage(x, stages[l])
    <3>1. /\ l < n => Len(next.matched) = l
          /\ ~(l < n) => next.matched = << >>
      BY <1>6, <1>7, <2>2, SkippedEvent DEF Open
    <3>2. CASE l < n
      <4>1. Open(stages, next) = stages[l + 1] /\ l + 1 \in 1 .. n /\ l + 1 # l
        BY <3>1, <3>2 DEF Open
      <4> QED BY <1>8, <1>9, <2>2, <4>1
    <3>3. CASE ~(l < n)
      <4>1. Len(next.matched) + 1 = 1 /\ l = n /\ 1 \in 1 .. n /\ 1 # l
        BY <1>7, <3>1, <3>3, EmptyRange
      <4>2. Open(stages, next) = stages[1]
        BY <4>1 DEF Open
      <4> QED BY <1>8, <1>9, <2>2, <4>1, <4>2
    <3> QED BY <3>2, <3>3
  <2> QED BY <2>1, <2>2
<1>11. OrderedScan(stage, E, group, Len(group), stages, within)
  BY <1>1, <1>2
<1>12. ~EventMatchesStage(e, Open(stages, stage[q - 1]))
  BY <1>3, <1>6, <1>10
<1> QED BY <1>11, <1>12, SkippedInScan

\* A rule of one stage matches when some event does.
LEMMA SingleStage ==
  ASSUME NEW E, NEW group \in Seq(E), NEW stages, Len(stages) = 1, NEW within
  PROVE  MatchOrdered(group, stages, within) # << >> <=>
           \E i \in 1 .. Len(group) : EventMatchesStage(group[i], stages[1])
<1>1. PICK m \in Nat : m = Len(group) /\ DOMAIN group = 1 .. m /\ \A i \in 1 .. m : group[i] \in E
  BY SequenceShape
<1>2. PICK stage : OrderedScan(stage, E, group, m, stages, within)
  <2>1. DOMAIN group = 1 .. m /\ \A i \in 1 .. m : group[i] \in E
    BY <1>1
  <2> QED BY <2>1, ScanStages
<1>3. \A k \in 0 .. m : stage[k] \in Scans(E) /\ Len(stage[k].matched) = 0
  <2>1. \A k \in 0 .. m : Len(stage[k].matched) \in 0 .. Len(stages) - 1
    <3>1. Len(stages) \in Nat /\ Len(stages) >= 1 /\ OrderedScan(stage, E, group, Len(group), stages, within)
      BY <1>1, <1>2
    <3> QED BY <1>1, <3>1, OpenStages
  <2> QED BY <1>2, <2>1 DEF OrderedScan
<1> DEFINE Some(k) == \E i \in 1 .. k : EventMatchesStage(group[i], stages[1])
           Reached == {k \in Nat : k <= m => (stage[k].matches # << >> <=> Some(k))}
<1>4. 0 \in Reached
  BY <1>2 DEF OrderedScan
<1>5. \A k \in Nat : k \in Reached => k + 1 \in Reached
  <2>1. SUFFICES ASSUME NEW k \in Nat, k + 1 <= m, stage[k].matches # << >> <=> Some(k)
                 PROVE  stage[k + 1].matches # << >> <=> Some(k + 1)
    <3> HIDE DEF Some
    <3> QED OBVIOUS
  <2>2. k + 1 \in 1 .. m /\ (k + 1) - 1 = k /\ k \in 0 .. m
    BY <2>1
  <2>3. PICK scan \in Scans(E) : scan = stage[k] /\ Len(scan.matched) = 0
    BY <1>3, <2>2
  <2>4. PICK e \in E : e = group[k + 1]
    BY <1>1, <2>2
  <2>5. PICK next : next = stage[k + 1] /\ next = Advance(stages, within, scan, e)
    BY <1>2, <2>2, <2>3, <2>4 DEF OrderedScan
  <2>6. Some(k + 1) <=> Some(k) \/ EventMatchesStage(e, stages[1])
    <3>1. \A i \in 1 .. k + 1 : i = k + 1 \/ i \in 1 .. k
      OBVIOUS
    <3>2. \A i \in 1 .. k : i \in 1 .. k + 1
      OBVIOUS
    <3>3. k + 1 \in 1 .. k + 1
      OBVIOUS
    <3> QED BY <2>4, <3>1, <3>2, <3>3
  <2> HIDE DEF Some
  <2>7. CASE ~EventMatchesStage(e, stages[1])
    <3>1. next = scan
      BY <2>3, <2>5, <2>7, SkippedEvent DEF Open
    <3> QED BY <2>1, <2>3, <2>5, <2>6, <2>7, <3>1
  <2>8. CASE EventMatchesStage(e, stages[1])
    <3>1. scan.matched \in Seq(E) /\ scan.matches \in Seq(Seq(E))
      BY DEF Scans
    <3>2. PICK matched \in Seq(E) : matched = Append(scan.matched, e) /\ Len(matched) = 1
      <4>1. Append(scan.matched, e) \in Seq(E) /\ Len(Append(scan.matched, e)) = Len(scan.matched) + 1
        BY <3>1, AppendProperties
      <4>2. Len(Append(scan.matched, e)) = 1
        BY <2>3, <4>1
      <4> QED BY <4>1, <4>2
    <3>3. WithinWindow(matched, within)
      BY <3>2 DEF WithinWindow
    <3>4. next = [matched |-> << >>, matches |-> Append(scan.matches, matched)]
      BY <2>5, <2>8, <3>2, <3>3 DEF Advance
    <3>5. Append(scan.matches, matched) # << >>
      BY <3>1, <3>2, AppendedRange
    <3> QED BY <2>5, <2>6, <2>8, <3>4, <3>5
  <2> QED BY <2>7, <2>8
<1>6. m \in Reached
  <2> HIDE DEF Reached
  <2> QED BY <1>4, <1>5, Induction
<1> QED BY <1>1, <1>2, <1>6 DEF OrderedScan

\* A stage takes the first event left that it asks for.
TakesFirst(new, scan, stage) ==
  \/ /\ new = [scan EXCEPT !.failed = TRUE]
     /\ \A i \in 1 .. Len(scan.left) : ~EventMatchesStage(scan.left[i], stage)
  \/ \E i \in 1 .. Len(scan.left) :
       /\ EventMatchesStage(scan.left[i], stage)
       /\ \A j \in 1 .. i - 1 : ~EventMatchesStage(scan.left[j], stage)
       /\ new = [left |-> RemoveAt(scan.left, i), failed |-> scan.failed,
                 matched |-> Append(scan.matched, scan.left[i])]

LEMMA FirstIsTaken ==
  ASSUME NEW E, NEW scan \in Takings(E), NEW stage, NEW new, new = Take(scan, stage)
  PROVE  TakesFirst(new, scan, stage)
<1>1. PICK left \in Seq(E) : left = scan.left
  BY DEF Takings
<1>2. PICK n \in Nat : n = Len(left) /\ \A i \in 1 .. n : left[i] \in E
  BY SequenceShape
<1>3. PICK I \in SUBSET (1 .. n) : I = {j \in 1 .. n : EventMatchesStage(left[j], stage)}
  OBVIOUS
<1>4. PICK i : i = IF I # {} THEN Min(I) ELSE 0
  OBVIOUS
<1>5. new = IF i = 0 THEN [scan EXCEPT !.failed = TRUE]
            ELSE [scan EXCEPT !.left = RemoveAt(left, i), !.matched = Append(scan.matched, left[i])]
  BY <1>1, <1>2, <1>3, <1>4 DEF Take, TakeNth, SelectInSeq
<1>6. /\ i \in 0 .. n /\ (i = 0 => I = {}) /\ (I # {} => i \in I) /\ (I = {} => i = 0)
      /\ \A j \in I : i <= j
  BY <1>3, <1>4, FirstOfSome
<1>7. CASE i = 0
  BY <1>1, <1>2, <1>3, <1>5, <1>6, <1>7 DEF TakesFirst
<1>8. CASE i # 0
  <2>1. i \in 1 .. n /\ EventMatchesStage(left[i], stage)
    BY <1>3, <1>6, <1>8
  <2>2. new = [left |-> RemoveAt(left, i), failed |-> scan.failed,
               matched |-> Append(scan.matched, left[i])]
    BY <1>5, <1>8 DEF Takings
  <2>3. \A j \in 1 .. i - 1 : ~EventMatchesStage(left[j], stage)
    <3>1. \A j \in 1 .. i - 1 : j \in 1 .. n /\ ~(i <= j)
      BY <2>1
    <3> QED BY <1>3, <1>6, <3>1
  <2> QED BY <1>1, <1>2, <2>1, <2>2, <2>3 DEF TakesFirst
<1> QED BY <1>7, <1>8

\* A stage that asks for the event at position q finds another one in front.
Hidden(left, e, q, stage) ==
  EventMatchesStage(e, stage) => \E j \in 1 .. q - 1 : EventMatchesStage(left[j], stage)

\* Where an event at i stands after another one has come to q, and where that one
\* stands when the event at i is taken.
Places(p, r, i, q, left) ==
  /\ i \in 1 .. Len(left)
  /\ p = IF i < q THEN i ELSE i + 1
  /\ r = IF i < q THEN q - 1 ELSE q

\* Of what is in front of q, all but the event at i is in front of r once that is taken.
InFront(rest, r, left, i, q) ==
  \A j \in 1 .. q - 1 : j # i => \E l \in 1 .. r - 1 : rest[l] = left[j]

\* What is left with and without the event, when the same one is taken of both.
LEMMA WithoutTaken ==
  ASSUME NEW E, NEW left \in Seq(E), NEW e, NEW more \in Seq(E), NEW q, With(more, left, e, q),
         NEW i, NEW p, NEW r, Places(p, r, i, q, left)
  PROVE  /\ With(RemoveAt(more, p), RemoveAt(left, i), e, r)
         /\ InFront(RemoveAt(left, i), r, left, i, q)
<1>1. PICK n \in Nat : n = Len(left) /\ n >= 1 /\ i \in 1 .. n
                       /\ p = (IF i < q THEN i ELSE i + 1) /\ r = (IF i < q THEN q - 1 ELSE q)
  <2>1. i \in 1 .. Len(left) /\ p = (IF i < q THEN i ELSE i + 1) /\ r = (IF i < q THEN q - 1 ELSE q)
    BY DEF Places
  <2> QED BY <2>1, SequenceShape
<1>2. q \in 1 .. n + 1 /\ Len(more) = n + 1
      /\ \A j \in 1 .. n + 1 : more[j] = IF j < q THEN left[j] ELSE IF j = q THEN e ELSE left[j - 1]
  BY <1>1 DEF With
<1>3. i \in 1 .. n /\ p \in 1 .. n + 1 /\ r \in 1 .. n
  BY <1>1, <1>2
<1>4. PICK a : a = RemoveAt(left, i) /\ Len(a) = n - 1
               /\ \A j \in 1 .. n - 1 : a[j] = IF j < i THEN left[j] ELSE left[j + 1]
  <2>1. PICK a : a = RemoveAt(left, i)
    OBVIOUS
  <2>2. RemovedAt(a, left, i)
    BY <1>1, <2>1 DEF RemovedAt
  <2>3. Shortened(a, left, i)
    BY <2>2, RemoveShape
  <2> QED BY <1>1, <2>1, <2>3 DEF Shortened
<1>5. PICK b : b = RemoveAt(more, p) /\ Len(b) = n
               /\ \A j \in 1 .. n : b[j] = IF j < p THEN more[j] ELSE more[j + 1]
  <2>1. p \in 1 .. Len(more) /\ Len(more) - 1 = n
    BY <1>2, <1>3
  <2>2. PICK b : b = RemoveAt(more, p)
    OBVIOUS
  <2>3. RemovedAt(b, more, p)
    BY <2>1, <2>2 DEF RemovedAt
  <2>4. Shortened(b, more, p)
    BY <2>3, RemoveShape
  <2> QED BY <2>1, <2>2, <2>4 DEF Shortened
<1>6. ASSUME NEW j \in 1 .. n
      PROVE  b[j] = IF j < r THEN a[j] ELSE IF j = r THEN e ELSE a[j - 1]
  <2>1. j \in 1 .. n + 1 /\ j + 1 \in 1 .. n + 1 /\ (j + 1) - 1 = j
    BY <1>1
  <2>2. CASE i < q
    <3>1. p = i /\ r = q - 1
      BY <1>1, <2>2
    <3>2. CASE j < i
      <4>1. j < r /\ j < q /\ j < p /\ j \in 1 .. n - 1
        BY <1>1, <1>2, <1>3, <2>2, <3>1, <3>2
      <4>2. b[j] = more[j] /\ more[j] = left[j] /\ a[j] = left[j]
        BY <1>2, <1>4, <1>5, <2>1, <3>2, <4>1
      <4> QED BY <4>1, <4>2
    <3>3. CASE ~(j < i) /\ j < r
      <4>1. j + 1 < q /\ j \in 1 .. n - 1
        BY <1>1, <1>2, <1>3, <3>1, <3>3
      <4> QED BY <1>2, <1>4, <1>5, <2>1, <3>1, <3>3, <4>1
    <3>4. CASE j = r
      <4>1. j + 1 = q /\ ~(j < p)
        BY <1>2, <1>3, <2>2, <3>1, <3>4
      <4> QED BY <1>2, <1>5, <2>1, <3>4, <4>1
    <3>5. CASE j > r
      <4>1. /\ ~(j + 1 < q) /\ j + 1 # q /\ ~(j < p) /\ j - 1 \in 1 .. n - 1 /\ ~(j - 1 < i)
            /\ (j - 1) + 1 = j /\ ~(j < r) /\ j # r
        BY <1>1, <1>2, <1>3, <2>2, <3>1, <3>5
      <4>2. b[j] = more[j + 1] /\ more[j + 1] = left[(j + 1) - 1]
        BY <1>2, <1>5, <2>1, <4>1
      <4>3. a[j - 1] = left[(j - 1) + 1]
        BY <1>4, <4>1
      <4> QED BY <2>1, <4>1, <4>2, <4>3
    <3> QED BY <1>3, <3>2, <3>3, <3>4, <3>5
  <2>3. CASE ~(i < q)
    <3>1. p = i + 1 /\ r = q
      BY <1>1, <2>3
    <3>2. CASE j < q
      <4>1. j < p /\ j < i /\ j < r /\ j \in 1 .. n - 1
        BY <1>1, <1>2, <1>3, <2>3, <3>1, <3>2
      <4> QED BY <1>2, <1>4, <1>5, <2>1, <3>2, <4>1
    <3>3. CASE j = q
      <4>1. j < p /\ ~(j < q) /\ ~(j < r) /\ j = r
        BY <1>2, <1>3, <2>3, <3>1, <3>3
      <4> QED BY <1>2, <1>5, <2>1, <3>3, <4>1
    <3>4. CASE j > q /\ j < p
      <4>1. /\ ~(j < q) /\ j # q /\ j - 1 < i /\ j - 1 \in 1 .. n - 1 /\ ~(j < r) /\ j # r
        BY <1>1, <1>2, <1>3, <2>3, <3>1, <3>4
      <4> QED BY <1>2, <1>4, <1>5, <2>1, <3>4, <4>1
    <3>5. CASE j > q /\ ~(j < p)
      <4>1. /\ ~(j + 1 < q) /\ j + 1 # q /\ ~(j - 1 < i) /\ j - 1 \in 1 .. n - 1 /\ (j - 1) + 1 = j
            /\ ~(j < r) /\ j # r
        BY <1>1, <1>2, <1>3, <2>3, <3>1, <3>5
      <4>2. b[j] = more[j + 1] /\ more[j + 1] = left[(j + 1) - 1]
        BY <1>2, <1>5, <2>1, <3>5, <4>1
      <4>3. a[j - 1] = left[(j - 1) + 1]
        BY <1>4, <4>1
      <4> QED BY <2>1, <4>1, <4>2, <4>3
    <3> QED BY <1>2, <3>2, <3>3, <3>4, <3>5
  <2> QED BY <2>2, <2>3
<1>7. With(b, a, e, r)
  <2>1. r \in 1 .. Len(a) + 1 /\ Len(b) = Len(a) + 1 /\ Len(a) + 1 = n
    BY <1>1, <1>3, <1>4, <1>5
  <2> QED BY <1>6, <2>1 DEF With
<1>8. ASSUME NEW j \in 1 .. q - 1, j # i PROVE \E l \in 1 .. r - 1 : a[l] = left[j]
  <2>1. CASE j < i
    <3>1. j \in 1 .. r - 1 /\ j \in 1 .. n - 1
      BY <1>1, <1>2, <1>3, <1>8, <2>1
    <3> QED BY <1>4, <2>1, <3>1
  <2>2. CASE j > i
    <3>1. j - 1 \in 1 .. r - 1 /\ j - 1 \in 1 .. n - 1 /\ ~(j - 1 < i) /\ (j - 1) + 1 = j
      BY <1>1, <1>2, <1>3, <1>8, <2>2
    <3> QED BY <1>4, <3>1
  <2> QED BY <1>2, <1>3, <1>8, <2>1, <2>2
<1> QED BY <1>4, <1>5, <1>7, <1>8 DEF InFront

\* After a stage has taken an event of both, the rest is with and without e again.
StillHidden(next, new, left, e, q, stage) ==
  /\ next.matched = new.matched /\ next.failed = new.failed
  /\ \E r : /\ With(next.left, new.left, e, r)
            /\ \A s : s.event_type # stage.event_type /\ Hidden(left, e, q, s)
                        => Hidden(new.left, e, r, s)

LEMMA HiddenTake ==
  ASSUME NEW E, NEW scan \in Takings(E), NEW other \in Takings(E), NEW e \in E, NEW q,
         With(other.left, scan.left, e, q),
         other.matched = scan.matched, other.failed = scan.failed,
         NEW stage, Hidden(scan.left, e, q, stage),
         NEW new, new = Take(scan, stage), NEW next, next = Take(other, stage)
  PROVE  StillHidden(next, new, scan.left, e, q, stage)
<1>1. PICK left \in Seq(E), n \in Nat : left = scan.left /\ n = Len(left)
  <2>1. scan.left \in Seq(E)
    BY DEF Takings
  <2> QED BY <2>1, SequenceShape
<1>2. PICK more \in Seq(E) : more = other.left
  BY DEF Takings
<1>3. With(more, left, e, q)
  BY <1>1, <1>2
<1>4. q \in 1 .. n + 1 /\ Len(more) = n + 1
      /\ \A j \in 1 .. n + 1 : more[j] = IF j < q THEN left[j] ELSE IF j = q THEN e ELSE left[j - 1]
  BY <1>1, <1>3 DEF With
<1>5. EventMatchesStage(e, stage) => \E j \in 1 .. q - 1 : EventMatchesStage(left[j], stage)
  BY <1>1 DEF Hidden
<1>6. TakesFirst(new, scan, stage) /\ TakesFirst(next, other, stage)
  BY FirstIsTaken
<1>7. CASE \A i \in 1 .. n : ~EventMatchesStage(left[i], stage)
  <2>1. new = [scan EXCEPT !.failed = TRUE]
    BY <1>1, <1>6, <1>7 DEF TakesFirst
  <2>2. ~EventMatchesStage(e, stage)
    <3>1. \A j \in 1 .. q - 1 : j \in 1 .. n
      BY <1>1, <1>4
    <3> QED BY <1>5, <1>7, <3>1
  <2>3. \A j \in 1 .. n + 1 : ~EventMatchesStage(more[j], stage)
    <3>1. \A j \in 1 .. n + 1 : \/ j < q /\ j \in 1 .. n
                                \/ j = q
                                \/ ~(j < q) /\ j # q /\ j - 1 \in 1 .. n
      BY <1>1, <1>4
    <3> QED BY <1>4, <1>7, <2>2, <3>1
  <2>4. next = [other EXCEPT !.failed = TRUE]
    BY <1>2, <1>4, <1>6, <2>3 DEF TakesFirst
  <2>5. /\ new.left = left /\ new.matched = scan.matched /\ new.failed = TRUE
        /\ next.left = more /\ next.matched = other.matched /\ next.failed = TRUE
    BY <1>1, <1>2, <2>1, <2>4 DEF Takings
  <2> QED BY <1>1, <1>3, <2>5 DEF StillHidden
<1>8. CASE \E i \in 1 .. n : EventMatchesStage(left[i], stage)
  <2>1. PICK i \in 1 .. n :
          /\ EventMatchesStage(left[i], stage)
          /\ \A j \in 1 .. i - 1 : ~EventMatchesStage(left[j], stage)
          /\ new = [left |-> RemoveAt(left, i), failed |-> scan.failed,
                    matched |-> Append(scan.matched, left[i])]
    BY <1>1, <1>6, <1>8 DEF TakesFirst
  <2>2. PICK p : p = IF i < q THEN i ELSE i + 1
    OBVIOUS
  <2>3. p \in 1 .. n + 1 /\ more[p] = left[i]
    <3>1. p \in 1 .. n + 1 /\ (p < q => p = i) /\ (~(p < q) => p # q /\ p - 1 = i)
      BY <1>1, <1>4, <2>2
    <3> QED BY <1>4, <3>1
  <2>4. \A j \in 1 .. p - 1 : ~EventMatchesStage(more[j], stage)
    <3>1. SUFFICES ASSUME NEW j \in 1 .. p - 1, EventMatchesStage(more[j], stage) PROVE FALSE
      OBVIOUS
    <3>2. j \in 1 .. n + 1
      BY <1>1, <2>3, <3>1
    <3>3. CASE j < q
      <4>1. j \in 1 .. i - 1
        BY <1>4, <2>2, <3>1, <3>3
      <4> QED BY <1>4, <2>1, <3>1, <3>2, <3>3, <4>1
    <3>4. CASE j = q
      <4>1. ~(i < q)
        BY <1>4, <2>2, <3>1, <3>4
      <4>2. PICK l \in 1 .. q - 1 : EventMatchesStage(left[l], stage)
        BY <1>4, <1>5, <3>1, <3>2, <3>4
      <4>3. l \in 1 .. i - 1
        BY <1>4, <4>1, <4>2
      <4> QED BY <2>1, <4>2, <4>3
    <3>5. CASE j > q
      <4>1. j - 1 \in 1 .. i - 1 /\ ~(j < q) /\ j # q
        BY <1>4, <2>2, <3>1, <3>5
      <4> QED BY <1>4, <2>1, <3>1, <3>2, <4>1
    <3> QED BY <1>4, <3>3, <3>4, <3>5
  <2>5. next = [left |-> RemoveAt(more, p), failed |-> other.failed,
                matched |-> Append(other.matched, more[p])]
    <3>1. PICK k \in 1 .. n + 1 :
            /\ EventMatchesStage(more[k], stage)
            /\ \A j \in 1 .. k - 1 : ~EventMatchesStage(more[j], stage)
            /\ next = [left |-> RemoveAt(more, k), failed |-> other.failed,
                       matched |-> Append(other.matched, more[k])]
      BY <1>2, <1>4, <1>6, <2>1, <2>3 DEF TakesFirst
    <3>2. k = p
      <4>1. k < p => k \in 1 .. p - 1
        BY <2>3
      <4>2. p < k => p \in 1 .. k - 1
        BY <2>3
      <4> QED BY <2>1, <2>3, <2>4, <3>1, <4>1, <4>2
    <3> QED BY <3>1, <3>2
  <2>6. PICK r : r = IF i < q THEN q - 1 ELSE q
    OBVIOUS
  <2>7. With(RemoveAt(more, p), RemoveAt(left, i), e, r) /\ InFront(RemoveAt(left, i), r, left, i, q)
    <3>1. Places(p, r, i, q, left)
      BY <1>1, <2>2, <2>6 DEF Places
    <3> QED BY <1>3, <3>1, WithoutTaken
  <2>8. ASSUME NEW s, s.event_type # stage.event_type, Hidden(left, e, q, s), EventMatchesStage(e, s)
        PROVE  \E l \in 1 .. r - 1 : EventMatchesStage(new.left[l], s)
    <3>1. PICK j \in 1 .. q - 1 : EventMatchesStage(left[j], s)
      BY <2>8 DEF Hidden
    <3>2. j # i
      BY <2>1, <2>8, <3>1 DEF EventMatchesStage
    <3>3. PICK l \in 1 .. r - 1 : RemoveAt(left, i)[l] = left[j]
      BY <2>7, <3>1, <3>2 DEF InFront
    <3> QED BY <2>1, <3>1, <3>3
  <2>9. \A s : s.event_type # stage.event_type /\ Hidden(scan.left, e, q, s) => Hidden(new.left, e, r, s)
    BY <1>1, <2>8 DEF Hidden
  <2> QED BY <2>1, <2>3, <2>5, <2>7, <2>9 DEF StillHidden
<1> QED BY <1>7, <1>8

LEMMA HiddenInStages ==
  ASSUME NEW E, NEW group \in Seq(E), NEW e \in E, NEW new \in Seq(E), NEW q, With(new, group, e, q),
         NEW stages, NEW n \in Nat, DOMAIN stages = 1 .. n, Differ(stages),
         \A i \in 1 .. n : Hidden(group, e, q, stages[i])
  PROVE  /\ TakeStages(new, stages).matched = TakeStages(group, stages).matched
         /\ TakeStages(new, stages).failed = TakeStages(group, stages).failed
<1>1. PICK old : Takes(old, E, group, n, stages)
  BY TakeStagesStages
<1>2. PICK scan : Takes(scan, E, new, n, stages)
  BY TakeStagesStages
<1> DEFINE Good(k) ==
             /\ scan[k].matched = old[k].matched /\ scan[k].failed = old[k].failed
             /\ \E r : /\ With(scan[k].left, old[k].left, e, r)
                       /\ \A i \in 1 .. n : i > k => Hidden(old[k].left, e, r, stages[i])
           Reached == {k \in Nat : k <= n => Good(k)}
<1>3. 0 \in Reached
  <2>1. /\ old[0].left = group /\ scan[0].left = new /\ scan[0].matched = old[0].matched
        /\ scan[0].failed = old[0].failed
    BY <1>1, <1>2 DEF Takes
  <2> QED BY <2>1
<1>4. \A k \in Nat : k \in Reached => k + 1 \in Reached
  <2>1. SUFFICES ASSUME NEW k \in Nat, k + 1 <= n, Good(k) PROVE Good(k + 1)
    <3> HIDE DEF Good
    <3> QED OBVIOUS
  <2>2. k + 1 \in 1 .. n /\ (k + 1) - 1 = k /\ k \in 0 .. n
    BY <2>1
  <2>3. PICK a \in Takings(E), b \in Takings(E) : a = old[k] /\ b = scan[k]
    BY <1>1, <1>2, <2>2 DEF Takes
  <2>4. PICK stage : stage = stages[k + 1]
    OBVIOUS
  <2>5. old[k + 1] = Take(a, stage) /\ scan[k + 1] = Take(b, stage)
    BY <1>1, <1>2, <2>2, <2>3, <2>4 DEF Takes
  <2>6. PICK r : /\ With(b.left, a.left, e, r)
                 /\ \A i \in 1 .. n : i > k => Hidden(a.left, e, r, stages[i])
    BY <2>1, <2>3
  <2>7. Hidden(a.left, e, r, stage)
    BY <2>2, <2>4, <2>6
  <2>8. b.matched = a.matched /\ b.failed = a.failed
    BY <2>1, <2>3
  <2>11. PICK taken, next : taken = Take(a, stage) /\ next = Take(b, stage)
    OBVIOUS
  <2>13. With(b.left, a.left, e, r)
    BY <2>6
  <2>12. StillHidden(next, taken, a.left, e, r, stage)
    BY <2>7, <2>8, <2>11, <2>13, HiddenTake
  <2>9. PICK s : /\ scan[k + 1].matched = old[k + 1].matched /\ scan[k + 1].failed = old[k + 1].failed
                 /\ With(scan[k + 1].left, old[k + 1].left, e, s)
                 /\ \A t : t.event_type # stage.event_type /\ Hidden(a.left, e, r, t)
                             => Hidden(old[k + 1].left, e, s, t)
    BY <2>5, <2>11, <2>12 DEF StillHidden
  <2>10. ASSUME NEW i \in 1 .. n, i > k + 1 PROVE Hidden(old[k + 1].left, e, s, stages[i])
    <3>1. i # k + 1 /\ i > k
      BY <2>10
    <3>2. stages[i].event_type # stage.event_type
      BY <2>2, <2>4, <3>1 DEF Differ
    <3> QED BY <2>6, <2>9, <3>1, <3>2
  <2> QED BY <2>9, <2>10
<1>5. Good(n)
  <2>1. n \in Reached
    <3> HIDE DEF Reached
    <3> QED BY <1>3, <1>4, Induction
  <2> HIDE DEF Good
  <2> QED BY <2>1
<1> QED BY <1>1, <1>2, <1>5 DEF Takes

\* An event that no stage asks for, or that stands behind one like it, makes no
\* difference to whether its group matches.
LEMMA ExtraUnseen ==
  ASSUME NEW E, NEW group \in Seq(E), NEW e \in E, NEW new \in Seq(E), NEW q, With(new, group, e, q),
         NEW rule, NEW n, Staged(rule, n), Differ(rule.stages),
         \/ Unasked(e, rule.stages)
         \/ q # 1 /\ Alike(e, group[q - 1], rule.stages)
  PROVE  Found(new, rule) # << >> <=> Found(group, rule) # << >>
<1>1. n \in Nat /\ n >= 1 /\ DOMAIN rule.stages = 1 .. n /\ Len(rule.stages) = n
  BY DEF Staged
<1>2. PICK stages, within : stages = rule.stages /\ within = rule.within_seconds
  OBVIOUS
<1>3. PICK m \in Nat : m = Len(group) /\ DOMAIN group = 1 .. m /\ \A i \in 1 .. m : group[i] \in E
  BY SequenceShape
<1>4. q \in 1 .. m + 1 /\ Len(new) = m + 1
      /\ \A j \in 1 .. m + 1 : new[j] = IF j < q THEN group[j] ELSE IF j = q THEN e ELSE group[j - 1]
  BY <1>3 DEF With
<1>5. /\ DOMAIN stages = 1 .. n /\ Len(stages) = n /\ Differ(stages)
      /\ \/ Unasked(e, stages)
         \/ q # 1 /\ Alike(e, group[q - 1], stages)
  BY <1>1, <1>2
<1>6. CASE rule.ordered /\ Unasked(e, stages)
  <2>1. PICK stage : OrderedScan(stage, E, group, Len(group), stages, within)
    <3>1. DOMAIN group = 1 .. Len(group) /\ \A i \in 1 .. Len(group) : group[i] \in E
      BY <1>3
    <3>2. Len(group) \in Nat
      BY <1>3
    <3> QED BY <3>1, <3>2, ScanStages
  <2>2. Len(stage[q - 1].matched) \in 0 .. n - 1
    <3>1. q - 1 \in 0 .. Len(group)
      BY <1>3, <1>4
    <3>2. Len(stages) \in Nat /\ Len(stages) >= 1
      BY <1>1, <1>5
    <3>3. \A k \in 0 .. Len(group) : Len(stage[k].matched) \in 0 .. Len(stages) - 1
      BY <2>1, <3>2, OpenStages
    <3> QED BY <1>5, <3>1, <3>3
  <2>3. Len(stage[q - 1].matched) + 1 \in 1 .. n
    BY <1>1, <2>2
  <2>4. ~EventMatchesStage(e, Open(stages, stage[q - 1]))
    BY <1>5, <1>6, <2>3 DEF Unasked, Open
  <2>5. MatchOrdered(new, stages, within) = MatchOrdered(group, stages, within)
    BY <2>1, <2>4, SkippedInScan
  <2> QED BY <1>2, <1>6, <2>5 DEF Found
<1>7. CASE rule.ordered /\ q # 1 /\ Alike(e, group[q - 1], stages) /\ n >= 2
  <2>1. MatchOrdered(new, stages, within) = MatchOrdered(group, stages, within)
    BY <1>1, <1>5, <1>7, CopySkipped
  <2> QED BY <1>2, <1>7, <2>1 DEF Found
<1>8. CASE rule.ordered /\ q # 1 /\ Alike(e, group[q - 1], stages) /\ n = 1
  <2>1. MatchOrdered(new, stages, within) # << >> <=>
          \E i \in 1 .. m + 1 : EventMatchesStage(new[i], stages[1])
    BY <1>4, <1>5, <1>8, SingleStage
  <2>2. MatchOrdered(group, stages, within) # << >> <=>
          \E i \in 1 .. m : EventMatchesStage(group[i], stages[1])
    BY <1>3, <1>5, <1>8, SingleStage
  <2>3. q - 1 \in 1 .. m /\ (EventMatchesStage(e, stages[1]) <=> EventMatchesStage(group[q - 1], stages[1]))
    BY <1>4, <1>5, <1>8 DEF Alike
  <2>4. ASSUME NEW i \in 1 .. m + 1, EventMatchesStage(new[i], stages[1])
        PROVE  \E j \in 1 .. m : EventMatchesStage(group[j], stages[1])
    <3>1. \/ i < q /\ i \in 1 .. m
          \/ i = q
          \/ ~(i < q) /\ i # q /\ i - 1 \in 1 .. m
      BY <1>4
    <3>2. new[i] = IF i < q THEN group[i] ELSE IF i = q THEN e ELSE group[i - 1]
      BY <1>4
    <3>3. CASE i = q
      BY <2>3, <2>4, <3>2, <3>3
    <3>4. CASE i # q
      BY <2>4, <3>1, <3>2, <3>4
    <3> QED BY <3>3, <3>4
  <2>5. ASSUME NEW j \in 1 .. m, EventMatchesStage(group[j], stages[1])
        PROVE  \E i \in 1 .. m + 1 : EventMatchesStage(new[i], stages[1])
    <3>1. CASE j < q
      <4>1. j \in 1 .. m + 1 /\ new[j] = group[j]
        BY <1>4, <3>1
      <4> QED BY <2>5, <4>1
    <3>2. CASE ~(j < q)
      <4>1. j + 1 \in 1 .. m + 1 /\ ~(j + 1 < q) /\ j + 1 # q /\ (j + 1) - 1 = j
        BY <1>4, <3>2
      <4>2. new[j + 1] = group[j]
        BY <1>4, <4>1
      <4> QED BY <2>5, <4>1, <4>2
    <3> QED BY <3>1, <3>2
  <2>6. MatchOrdered(new, stages, within) # << >> <=> MatchOrdered(group, stages, within) # << >>
    BY <2>1, <2>2, <2>4, <2>5
  <2> QED BY <1>2, <1>8, <2>6 DEF Found
<1>9. CASE ~rule.ordered
  <2>1. \A i \in 1 .. n : Hidden(group, e, q, stages[i])
    <3>1. SUFFICES ASSUME NEW i \in 1 .. n, EventMatchesStage(e, stages[i])
                   PROVE  \E j \in 1 .. q - 1 : EventMatchesStage(group[j], stages[i])
      BY DEF Hidden
    <3>2. q # 1 /\ Alike(e, group[q - 1], stages)
      BY <1>5, <3>1 DEF Unasked
    <3>3. q - 1 \in 1 .. q - 1
      BY <1>4, <3>2
    <3> QED BY <1>5, <3>1, <3>2, <3>3 DEF Alike
  <2>2. PICK old, taken : old = TakeStages(group, stages) /\ taken = TakeStages(new, stages)
    OBVIOUS
  <2>3. taken.matched = old.matched /\ taken.failed = old.failed
    BY <1>1, <1>5, <2>1, <2>2, HiddenInStages
  <2>4. PICK found : found = MatchUnordered(group, stages, within)
    OBVIOUS
  <2>5. PICK more : more = MatchUnordered(new, stages, within)
    OBVIOUS
  <2>6. found # << >> <=> ~old.failed /\ WithinWindow(old.matched, within)
    BY <1>1, <1>5, <2>2, <2>4, UnorderedShape
  <2>7. more # << >> <=> ~taken.failed /\ WithinWindow(taken.matched, within)
    BY <1>1, <1>5, <2>2, <2>5, UnorderedShape
  <2>8. more # << >> <=> found # << >>
    BY <2>3, <2>6, <2>7
  <2> QED BY <1>2, <1>9, <2>4, <2>5, <2>8 DEF Found
<1>10. n >= 2 \/ n = 1
  BY <1>1
<1> QED BY <1>5, <1>6, <1>7, <1>8, <1>9, <1>10

\* Wherever the event goes in a group of its key, it stands behind one like it.
Shadowed(e, events, rule) ==
  \A group, new, i :
    /\ group = OrderedGroup(events, rule.group_by, GroupKey(e, rule.group_by))
    /\ InsertedAt(new, group, e, i)
    => i # 1 /\ Alike(e, group[i - 1], rule.stages)

LEMMA ExtraEvent ==
  ASSUME NEW E, NEW events \in Seq(E), NEW e \in E, NEW rule, NEW n, Staged(rule, n),
         Differ(rule.stages), Unasked(e, rule.stages) \/ Shadowed(e, events, rule),
         NEW more, Added(more, events, e)
  PROVE  Matches(more, rule) <=> Matches(events, rule)
<1>1. more \in Seq(E)
  BY AppendProperties DEF Added
<1> DEFINE Old(key) == OrderedGroup(events, rule.group_by, key)
           New(key) == OrderedGroup(more, rule.group_by, key)
<1>2. Matches(more, rule) <=> \E key : Found(New(key), rule) # << >>
  BY <1>1, MatchesMeans
<1>3. Matches(events, rule) <=> \E key : Found(Old(key), rule) # << >>
  BY MatchesMeans
<1>4. ASSUME NEW key PROVE Found(New(key), rule) # << >> <=> Found(Old(key), rule) # << >>
  <2>1. PICK group : group = Old(key)
    OBVIOUS
  <2>2. PICK new : new = New(key)
    OBVIOUS
  <2>3. new = AddInOrder(rule.group_by, key, group, e)
    <3>1. PICK paths : paths = rule.group_by
      OBVIOUS
    <3>2. OrderedGroup(more, paths, key) = AddInOrder(paths, key, OrderedGroup(events, paths, key), e)
      BY NextGroup
    <3> QED BY <2>1, <2>2, <3>1, <3>2
  <2>4. CASE GroupKey(e, rule.group_by) # key
    BY <2>1, <2>2, <2>3, <2>4 DEF AddInOrder
  <2>5. CASE GroupKey(e, rule.group_by) = key
    <3>1. new = InsertInOrder(group, e)
      BY <2>3, <2>5 DEF AddInOrder
    <3>2. group \in Seq(E)
      <4>1. PICK m \in Nat : m = Len(events) /\ DOMAIN events = 1 .. m /\ \A i \in 1 .. m : events[i] \in E
        BY SequenceShape
      <4>2. PICK stage : OrderStages(stage, E, events, m, rule.group_by, key)
        BY <4>1, OrderedGroupStages
      <4>3. m \in 0 .. m
        BY <4>1
      <4> QED BY <2>1, <4>2, <4>3 DEF OrderStages
    <3>3. new \in Seq(E) /\ Len(new) = Len(group) + 1
      BY <3>1, <3>2, InsertInOrderShape
    <3>4. PICK i : InsertedAt(new, group, e, i)
      BY <3>1, <3>2, InsertInOrderShape
    <3>5. With(new, group, e, i)
      BY <3>3, <3>4 DEF InsertedAt, With
    <3>6. Unasked(e, rule.stages) \/ (i # 1 /\ Alike(e, group[i - 1], rule.stages))
      BY <2>1, <2>5, <3>4 DEF Shadowed
    <3>7. Found(new, rule) # << >> <=> Found(group, rule) # << >>
      BY <3>2, <3>3, <3>5, <3>6, ExtraUnseen
    <3> QED BY <2>1, <2>2, <3>7
  <2> QED BY <2>4, <2>5
<1> HIDE DEF Old, New
<1> QED BY <1>2, <1>3, <1>4

\* No two of them occurred at once.
Apace(events) == \A i, j \in DOMAIN events : i # j => events[i].at # events[j].at

\* A later copy of an event goes right behind it.
LEMMA CopyShadowed ==
  ASSUME NEW E, Typed(E), NEW events \in Seq(E), Distinct(events), Apace(events),
         NEW x \in Range(events), NEW e, e.at = x.at, e.sequence \in Int, e.sequence > x.sequence,
         NEW rule, Alike(e, x, rule.stages), GroupKey(e, rule.group_by) = GroupKey(x, rule.group_by)
  PROVE  Shadowed(e, events, rule)
<1>1. SUFFICES ASSUME NEW group, NEW new, NEW i,
                      group = OrderedGroup(events, rule.group_by, GroupKey(e, rule.group_by)),
                      InsertedAt(new, group, e, i)
               PROVE  i # 1 /\ Alike(e, group[i - 1], rule.stages)
  BY DEF Shadowed
<1>2. /\ group \in Seq(E) /\ Distinct(group) /\ Sorted(group)
      /\ \A f : f \in Range(group) <=> f \in Range(events) /\ GroupKey(f, rule.group_by) = GroupKey(e, rule.group_by)
  BY <1>1, GroupShape
<1>3. PICK n \in Nat : n = Len(group) /\ DOMAIN group = 1 .. n /\ \A j \in 1 .. n : group[j] \in E
                       /\ \A f : f \in Range(group) <=> \E k \in 1 .. n : group[k] = f
  BY <1>2, SequenceShape
<1>4. PICK p \in 1 .. n : group[p] = x
  <2>1. x \in Range(group)
    BY <1>2
  <2>2. \E k \in 1 .. Len(group) : group[k] = x
    BY <1>2, <2>1, SequenceShape
  <2> QED BY <1>3, <2>2
<1>5. ASSUME NEW j \in 1 .. n, j # p PROVE group[j].at # x.at
  <2>1. group[j] # x
    BY <1>2, <1>3, <1>4, <1>5 DEF Distinct
  <2>2. group[j] \in Range(events)
    BY <1>2, <1>3
  <2>3. PICK k, l \in DOMAIN events : events[k] = group[j] /\ events[l] = x
    BY <2>2 DEF Range
  <2> QED BY <2>1, <2>3 DEF Apace
<1>6. /\ i \in 1 .. n + 1
      /\ \A j \in 1 .. i - 1 : ~Before(e, group[j])
      /\ i <= n => Before(e, group[i])
  BY <1>1, <1>3 DEF InsertedAt
<1>7. x \in E /\ x.at \in Int /\ x.sequence \in Int /\ \A j \in 1 .. n : group[j].at \in Int
  BY <1>3, <1>4 DEF Typed
<1>8. ~Before(e, x)
  BY <1>7 DEF Before
<1>9. ASSUME i < p PROVE FALSE
  <2>1. i \in 1 .. n /\ i # p /\ i <= n
    BY <1>6, <1>9
  <2>2. Before(e, group[i]) /\ Before(group[i], x)
    BY <1>2, <1>3, <1>4, <1>6, <1>9, <2>1 DEF Sorted
  <2> QED BY <1>5, <1>7, <2>1, <2>2 DEF Before
<1>10. i # p
  BY <1>4, <1>6, <1>8
<1>11. ASSUME i > p + 1 PROVE FALSE
  <2>1. p + 1 \in 1 .. n /\ p + 1 # p /\ p + 1 \in 1 .. i - 1 /\ p < p + 1
    BY <1>6, <1>11
  <2>2. ~Before(e, group[p + 1]) /\ Before(x, group[p + 1])
    BY <1>2, <1>3, <1>4, <1>6, <2>1 DEF Sorted
  <2> QED BY <1>5, <1>7, <2>1, <2>2 DEF Before
<1>12. i = p + 1
  BY <1>6, <1>9, <1>10, <1>11
<1>13. i # 1 /\ i - 1 = p
  BY <1>12
<1> QED BY <1>4, <1>13

\* What a rule reads of an event is the same in two of them.
Reads(e, x) == e.type = x.type /\ e.envelope = x.envelope /\ e.payload = x.payload

LEMMA ReadAlike ==
  ASSUME NEW e, NEW x, Reads(e, x), NEW stages, NEW paths
  PROVE  Alike(e, x, stages) /\ GroupKey(e, paths) = GroupKey(x, paths)
<1>1. \A path : PathValue(e, path) = PathValue(x, path)
  BY DEF Reads, PathValue
<1>2. \A stage : EventMatchesStage(e, stage) <=> EventMatchesStage(x, stage)
  BY <1>1 DEF EventMatchesStage, Reads
<1>3. GroupKey(e, paths) = GroupKey(x, paths)
  BY <1>1 DEF GroupKey
<1> QED BY <1>2, <1>3 DEF Alike

\* The events have the fields that the mutations change.
Fielded(E) ==
  \A e \in E : {"id", "type", "at", "sequence", "envelope", "payload"} \subseteq DOMAIN e

Unnoticed(stages) == \A i \in DOMAIN stages : stages[i].event_type # "resource.observed"

LEMMA DistractorUnseen ==
  ASSUME NEW E, Fielded(E), NEW events \in Seq(E), events # << >>,
         NEW rule, NEW n, Staged(rule, n), Differ(rule.stages), Unnoticed(rule.stages)
  PROVE  Matches(BenignDistractor(events), rule) <=> Matches(events, rule)
<1>1. Len(events) \in Nat /\ \A i \in 1 .. Len(events) : events[i] \in E
  BY SequenceShape
<1>2. Len(events) \in 1 .. Len(events)
  BY <1>1, EmptySeq
<1>3. PICK x \in E : x = Last(events)
  BY <1>1, <1>2 DEF Last
<1>4. PICK e : e = [x EXCEPT !.id = @ + 1, !.type = "resource.observed", !.payload = << >>]
  OBVIOUS
<1>5. e.type = "resource.observed"
  BY <1>3, <1>4 DEF Fielded
<1>6. Unasked(e, rule.stages)
  BY <1>5 DEF Unasked, Unnoticed, EventMatchesStage
<1>7. PICK more : more = Append(events, e)
  OBVIOUS
<1>8. BenignDistractor(events) = more
  BY <1>3, <1>4, <1>7 DEF BenignDistractor
<1>9. PICK F : F = E \cup {e}
  OBVIOUS
<1>10. events \in Seq(F) /\ e \in F
  <2>1. events = [i \in 1 .. Len(events) |-> events[i]] /\ \A i \in 1 .. Len(events) : events[i] \in F
    BY <1>1, <1>9, LenProperties
  <2> QED BY <1>1, <1>9, <2>1
<1>11. Added(more, events, e)
  BY <1>7 DEF Added
<1> QED BY <1>6, <1>8, <1>10, <1>11, ExtraEvent

LEMMA DuplicateUnseen ==
  ASSUME NEW E, Typed(E), Fielded(E), NEW events \in Seq(E), Distinct(events), Apace(events),
         events # << >>, NEW rule, NEW n, Staged(rule, n), Differ(rule.stages), NEW seed \in Nat
  PROVE  Matches(DuplicateEvent(events, seed), rule) <=> Matches(events, rule)
<1>1. PICK l \in Nat : l = Len(events) /\ DOMAIN events = 1 .. l /\ \A i \in 1 .. l : events[i] \in E
  BY SequenceShape
<1>2. l >= 1
  BY <1>1, EmptySeq
<1>3. PICK i : i = (seed % l) + 1 /\ i \in 1 .. l
  BY <1>2
<1>4. PICK x \in E : x = events[i]
  BY <1>1, <1>3
<1>5. PICK e : e = [x EXCEPT !.id = @ + 2, !.sequence = @ + 10000 + seed]
  OBVIOUS
<1>6. {"id", "type", "at", "sequence", "envelope", "payload"} \subseteq DOMAIN x /\ x.sequence \in Int
  BY <1>4 DEF Fielded, Typed
<1>7. Reads(e, x) /\ e.at = x.at /\ e.sequence = x.sequence + 10000 + seed
  BY <1>5, <1>6 DEF Reads
<1>8. e.sequence \in Int /\ e.sequence > x.sequence
  BY <1>6, <1>7
<1>9. x \in Range(events)
  BY <1>1, <1>3, <1>4 DEF Range
<1>10. Alike(e, x, rule.stages) /\ GroupKey(e, rule.group_by) = GroupKey(x, rule.group_by)
  BY <1>7, ReadAlike
<1>11. Shadowed(e, events, rule)
  BY <1>7, <1>8, <1>9, <1>10, CopyShadowed
<1>12. PICK more : more = Append(events, e)
  OBVIOUS
<1>13. DuplicateEvent(events, seed) = more
  BY <1>1, <1>3, <1>4, <1>5, <1>12 DEF DuplicateEvent
<1>14. PICK F : F = E \cup {e}
  OBVIOUS
<1>15. events \in Seq(F) /\ e \in F
  <2>1. events = [j \in 1 .. l |-> events[j]] /\ \A j \in 1 .. l : events[j] \in F
    BY <1>1, <1>14, LenProperties
  <2> QED BY <1>14, <2>1
<1>16. Added(more, events, e)
  BY <1>12 DEF Added
<1> QED BY <1>11, <1>13, <1>15, <1>16, ExtraEvent

LEMMA ReversalUnseen ==
  ASSUME NEW E, Typed(E), NEW events \in Seq(E), Distinct(events), NEW rule, NEW n, Staged(rule, n)
  PROVE  Matches(Reverse(events), rule) <=> Matches(events, rule)
<1>1. PICK l \in Nat : l = Len(events) /\ DOMAIN events = 1 .. l /\ \A i \in 1 .. l : events[i] \in E
  BY SequenceShape
<1>2. PICK other : other = Reverse(events) /\ other = [i \in 1 .. l |-> events[(l - i) + 1]]
  BY <1>1 DEF Reverse
<1>3. \A i \in 1 .. l : (l - i) + 1 \in 1 .. l /\ (l - ((l - i) + 1)) + 1 = i
  BY <1>1
<1>4. \A i \in 1 .. l : other[i] = events[(l - i) + 1] /\ other[i] \in E
  BY <1>1, <1>2, <1>3
<1>5. other \in Seq(E) /\ DOMAIN other = 1 .. l
  <2>1. other = [i \in 1 .. l |-> other[i]]
    BY <1>2
  <2> QED BY <1>4, <2>1
<1>6. Distinct(other)
  <2>1. ASSUME NEW i \in 1 .. l, NEW j \in 1 .. l, other[i] = other[j] PROVE i = j
    <3>1. PICK a \in 1 .. l, b \in 1 .. l : a = (l - i) + 1 /\ b = (l - j) + 1
      BY <1>3
    <3>2. events[a] = events[b]
      BY <1>4, <2>1, <3>1
    <3>3. a = b
      BY <1>1, <3>2 DEF Distinct
    <3> QED BY <3>1, <3>3
  <2> QED BY <1>5, <2>1 DEF Distinct
<1>7. \A f : f \in Range(other) <=> f \in Range(events)
  <2>1. \A f : f \in Range(other) <=> \E i \in 1 .. l : other[i] = f
    BY <1>5 DEF Range
  <2>2. \A f : f \in Range(events) <=> \E i \in 1 .. l : events[i] = f
    BY <1>1 DEF Range
  <2>3. \A i \in 1 .. l : other[(l - i) + 1] = events[i]
    BY <1>3, <1>4
  <2> QED BY <1>3, <1>4, <2>1, <2>2, <2>3
<1>8. Range(other) = Range(events)
  BY <1>7
<1>9. \A key : OrderedGroup(other, rule.group_by, key) = OrderedGroup(events, rule.group_by, key)
  BY <1>5, <1>6, <1>8, GroupsAgree
<1>10. Matches(other, rule) <=> \E key : Found(OrderedGroup(other, rule.group_by, key), rule) # << >>
  BY <1>5, MatchesMeans
<1>11. Matches(events, rule) <=> \E key : Found(OrderedGroup(events, rule.group_by, key), rule) # << >>
  BY MatchesMeans
<1> QED BY <1>2, <1>9, <1>10, <1>11

\* The score counts no copy but the one that makes the outcome uncertain.
LEMMA VerdictsStand ==
  ASSUME NEW E, Typed(E), Fielded(E), NEW events \in Seq(E), Distinct(events), Apace(events),
         NEW rule, NEW n, Staged(rule, n), Differ(rule.stages), Unnoticed(rule.stages),
         NEW seed \in Nat, NEW verdict, verdict = Matches(events, rule),
         NEW cases, cases = [strategy \in Strategies |->
                               MutateEvents(events, strategy, verdict, seed)],
         NEW score, score = ScoreDetectionRobustness(rule, cases)
  PROVE  score.false_positive \cup score.false_negative \subseteq {"outcome_uncertainty"}
<1>1. ASSUME NEW strategy \in Strategies, strategy # "outcome_uncertainty"
      PROVE  Matches(cases[strategy].events, rule) = cases[strategy].expected
  <2>1. PICK case : case = cases[strategy] /\ case = MutateEvents(events, strategy, verdict, seed)
    OBVIOUS
  <2>2. case.expected = verdict
    BY <1>1, <2>1 DEF MutateEvents
  <2>3. case.events =
          IF events = << >> THEN << >>
          ELSE CASE strategy = "benign_distractor"    -> BenignDistractor(events)
                 [] strategy = "duplicate_event"      -> DuplicateEvent(events, seed)
                 [] strategy = "reorder_unrelated"    -> Reverse(events)
                 [] strategy = "outcome_uncertainty"  -> OutcomeUncertainty(events)
                 [] OTHER                             -> events
    BY <2>1 DEF MutateEvents
  <2>4. Matches(case.events, rule) <=> Matches(events, rule)
    <3>1. CASE events = << >>
      <4>1. case.events = events
        BY <2>3, <3>1
      <4> QED BY <4>1
    <3>2. CASE events # << >> /\ strategy = "benign_distractor"
      <4>1. case.events = BenignDistractor(events)
        BY <2>3, <3>2
      <4>2. Matches(BenignDistractor(events), rule) <=> Matches(events, rule)
        BY <3>2, DistractorUnseen
      <4> QED BY <4>1, <4>2
    <3>3. CASE events # << >> /\ strategy = "duplicate_event"
      <4>1. case.events = DuplicateEvent(events, seed)
        BY <2>3, <3>3
      <4>2. Matches(DuplicateEvent(events, seed), rule) <=> Matches(events, rule)
        BY <3>3, DuplicateUnseen
      <4> QED BY <4>1, <4>2
    <3>4. CASE events # << >> /\ strategy = "reorder_unrelated"
      <4>1. case.events = Reverse(events)
        BY <2>3, <3>4
      <4>2. Matches(Reverse(events), rule) <=> Matches(events, rule)
        BY ReversalUnseen
      <4> QED BY <4>1, <4>2
    <3>5. CASE /\ events # << >>
               /\ strategy \notin {"benign_distractor", "duplicate_event", "reorder_unrelated"}
      <4>1. case.events = events
        BY <1>1, <2>3, <3>5
      <4> QED BY <4>1
    <3> QED BY <3>1, <3>2, <3>3, <3>4, <3>5
  <2> QED BY <2>1, <2>2, <2>4 DEF Matches
<1>2. PICK wrong : wrong = {case \in DOMAIN cases :
                              Matches(cases[case].events, rule) # cases[case].expected}
  OBVIOUS
<1>3. wrong \subseteq {"outcome_uncertainty"}
  BY <1>1, <1>2
<1>4. score.false_positive \subseteq wrong /\ score.false_negative \subseteq wrong
  BY <1>2 DEF ScoreDetectionRobustness
<1> QED BY <1>3, <1>4

\* What the lab says of a rule over a corpus.
LabResult(events, rule, seed) ==
  [score   |-> ScoreDetectionRobustness(rule,
                 [strategy \in Strategies |->
                    MutateEvents(events, strategy, Matches(events, rule), seed)]),
   failing |-> MinimizeCounterexample(rule,
                 [events |-> events, expected |-> ~Matches(events, rule)])]

LabInv ==
  /\ DetectionInv
  /\ replay # Nil => /\ report # Nil
                     /\ \E seed \in Nat : replay = LabResult(corpus, rules[1], seed)

LEMMA LabInvNext == LabInv /\ [DetectionNext]_detectionVars => LabInv'
<1>1. SUFFICES ASSUME LabInv, [DetectionNext]_detectionVars PROVE LabInv'
  OBVIOUS
<1>2. DetectionInv'
  BY <1>1, DetectionInvNext DEF LabInv
<1>3. CASE LoadPack
  <2>1. report = Nil
    BY <1>1, <1>3 DEF LabInv, DetectionInv, LoadPack
  <2> QED BY <1>1, <1>2, <1>3, <2>1 DEF LabInv, LoadPack
<1>4. CASE Arrive
  BY <1>1, <1>2, <1>4 DEF LabInv, Arrive
<1>5. CASE Explain
  BY <1>1, <1>2, <1>5 DEF LabInv, Explain
<1>6. CASE Replay
  <2>1. PICK seed \in 0 .. Max({0, Len(corpus) - 1}) : replay' = LabResult(corpus, rules[1], seed)
    BY <1>6 DEF Replay, LabResult
  <2>2. seed \in Nat
    <3>1. Max({0, Len(corpus) - 1}) \in Int
      <4>1. Len(corpus) \in Nat
        BY <1>1, SequenceShape DEF LabInv, DetectionInv
      <4>2. PICK top : top = IF Len(corpus) - 1 > 0 THEN Len(corpus) - 1 ELSE 0
        OBVIOUS
      <4>3. top \in {0, Len(corpus) - 1} /\ \A y \in {0, Len(corpus) - 1} : top >= y
        BY <4>1, <4>2
      <4> QED BY <4>1, <4>3 DEF Max
    <3> QED BY <3>1
  <2> QED BY <1>2, <1>6, <2>1, <2>2 DEF LabInv, Replay
<1>7. CASE UNCHANGED detectionVars
  BY <1>1, <1>2, <1>7 DEF LabInv, detectionVars
<1> QED BY <1>1, <1>3, <1>4, <1>5, <1>6, <1>7 DEF DetectionNext

\* Over a corpus without simultaneous events, for a rule whose stages do not
\* compete and do not ask for the distractor, the lab blames the rule for no copy
\* that only adds a distractor or a duplicate, or arrives in another order; and
\* every counterexample that it minimizes is part of the corpus, still fails, and
\* needs each of its events.
THEOREM LabVerdictsHold == DetectionSpec => []LabVerdictsStand
<1>1. DetectionInit => LabInv
  BY DetectionInvInit DEF LabInv, DetectionInit
<1>2. LabInv => LabVerdictsStand
  <2>1. SUFFICES ASSUME LabInv, replay # Nil PROVE LabVerdictsStand
    BY DEF LabVerdictsStand
  <2>2. PICK rule, n : rule = rules[1] /\ Staged(rule, n)
    BY <2>1, LoadedRules DEF LabInv, DetectionInv
  <2>3. PICK seed \in Nat : replay = LabResult(corpus, rule, seed)
    BY <2>1, <2>2 DEF LabInv
  <2>4. corpus \in Seq(EventPool) /\ Distinct(corpus) /\ Typed(EventPool) /\ Fielded(EventPool)
    BY <2>1, PooledEvents DEF LabInv, DetectionInv, Typed, Fielded
  <2>5. PICK verdict : verdict = Matches(corpus, rule) /\ verdict \in BOOLEAN
    BY DEF Matches
  <2>6. ASSUME Apace(corpus), Differ(rule.stages), Unnoticed(rule.stages)
        PROVE  (replay.score.false_positive \cup replay.score.false_negative)
                 \subseteq {"outcome_uncertainty"}
    <3>1. PICK cases : cases = [strategy \in Strategies |->
                                  MutateEvents(corpus, strategy, verdict, seed)]
      OBVIOUS
    <3>2. PICK score : score = ScoreDetectionRobustness(rule, cases) /\ replay.score = score
      BY <2>3, <2>5, <3>1 DEF LabResult
    <3>3. score.false_positive \cup score.false_negative \subseteq {"outcome_uncertainty"}
      BY <2>2, <2>4, <2>5, <2>6, <3>1, <3>2, VerdictsStand
    <3> QED BY <3>2, <3>3
  <2>7. PICK case : /\ case = replay.failing
                    /\ case = MinimizeCounterexample(rule, [events |-> corpus, expected |-> ~verdict])
    BY <2>3, <2>5 DEF LabResult
  <2>8. /\ PartOf(case.events, corpus)
        /\ Fails(rule, case.events, case.expected)
        /\ Minimal(rule, case.events, case.expected)
    <3>1. PICK expected : expected = ~verdict
      OBVIOUS
    <3>2. Fails(rule, corpus, expected)
      BY <2>5, <3>1 DEF Fails
    <3>3. case = MinimizeCounterexample(rule, [events |-> corpus, expected |-> expected])
      BY <2>7, <3>1
    <3> QED BY <2>4, <3>2, <3>3, CounterexampleIsMinimal
  <2>9. /\ Apace(corpus) <=> \A i, j \in DOMAIN corpus : i # j => corpus[i].at # corpus[j].at
        /\ Differ(rule.stages) <=> ~Overlapping(rule)
        /\ Unnoticed(rule.stages) <=>
             \A i \in DOMAIN rule.stages : rule.stages[i].event_type # "resource.observed"
    BY DEF Apace, Differ, Overlapping, Unnoticed
  <2>10. \E at \in [DOMAIN case.events -> DOMAIN corpus] :
           /\ \A i, j \in DOMAIN at : i < j => at[i] < at[j]
           /\ case.events = [i \in DOMAIN at |-> corpus[at[i]]]
    BY <2>8 DEF PartOf
  <2>11. Matches(case.events, rule) # case.expected
    BY <2>8 DEF Fails
  <2>12. \A i \in DOMAIN case.events : Matches(RemoveAt(case.events, i), rule) = case.expected
    BY <2>8 DEF Minimal
  <2>13. /\ \A i, j \in DOMAIN corpus : i # j => corpus[i].at # corpus[j].at
         /\ ~Overlapping(rules[1])
         /\ \A i \in DOMAIN rules[1].stages : rules[1].stages[i].event_type # "resource.observed"
         => (replay.score.false_positive \cup replay.score.false_negative)
              \subseteq {"outcome_uncertainty"}
    BY <2>2, <2>6, <2>9
  <2> QED BY <2>2, <2>7, <2>10, <2>11, <2>12, <2>13 DEF LabVerdictsStand
<1> QED BY <1>1, <1>2, LabInvNext, PTL DEF DetectionSpec
=============================================================================
