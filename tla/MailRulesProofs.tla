--------------------------- MODULE MailRulesProofs ---------------------------
(***************************************************************************)
(* The rules runner of MailRules, for every number of UIDs, renumberings,  *)
(* rounds, attempts and messages per pass.                                 *)
(***************************************************************************)
EXTENDS MailRules, FiniteSetTheorems, WellFoundedInduction, TLAPS

-----------------------------------------------------------------------------
(* What a pass takes from the cache *)

\* A set of UIDs has a smallest member: the order of Nat is well-founded.
LEMMA SmallestIsLeast ==
  ASSUME NEW S \in SUBSET Uid, S # {}
  PROVE  Smallest(S) \in S /\ \A u \in S : Smallest(S) <= u
<1> DEFINE R == OpToRel(<, Nat)
<1>1. IsWellFoundedOn(R, Nat)
  BY NatLessThanWellFounded
<1>2. S \subseteq Nat
  BY BoundsAssumption DEF Uid
<1>3. \E x \in S : \A y \in S : ~ (<<y, x>> \in R)
  <2> HIDE DEF R
  <2> QED BY <1>1, <1>2, WFMin
<1>4. PICK x \in S : \A y \in S : ~ (<<y, x>> \in R)
  BY <1>3
<1>5. \A u \in S : x <= u
  <2> TAKE u \in S
  <2>1. u \in Nat /\ x \in Nat
    BY <1>2
  <2>2. ~(u < x)
    BY <1>4, <2>1 DEF OpToRel
  <2> QED BY <2>1, <2>2
<1> QED BY <1>5 DEF Smallest

\* And a largest one, by the same order counted down from MaxUid.
LEMMA LargestIsGreatest ==
  ASSUME NEW S \in SUBSET Uid, S # {}
  PROVE  Largest(S) \in S /\ \A u \in S : u <= Largest(S)
<1> DEFINE R == OpToRel(<, Nat)
           T == {MaxUid - u : u \in S}
<1>1. IsWellFoundedOn(R, Nat)
  BY NatLessThanWellFounded
<1>2. T \subseteq Nat /\ T # {}
  <2>1. \A u \in S : MaxUid - u \in Nat
    BY BoundsAssumption DEF Uid
  <2>2. T \subseteq Nat
    BY <2>1
  <2> QED BY <2>2
<1>3. \E x \in T : \A y \in T : ~ (<<y, x>> \in R)
  <2> HIDE DEF R, T
  <2> QED BY <1>1, <1>2, WFMin
<1>4. PICK x \in T : \A y \in T : ~ (<<y, x>> \in R)
  BY <1>3
<1>5. PICK m \in S : x = MaxUid - m
  OBVIOUS
<1>6. \A u \in S : u <= m
  <2> TAKE u \in S
  <2>1. MaxUid - u \in Nat /\ x \in Nat
    BY <1>2
  <2>2. ~(MaxUid - u < x)
    BY <1>4, <2>1 DEF OpToRel
  <2> QED BY <2>2, <1>5, BoundsAssumption DEF Uid
<1> QED BY <1>6 DEF Largest

\* Sets of UIDs are finite, so cardinalities can be compared.
LEMMA UidsAreFinite ==
  ASSUME NEW S \in SUBSET Uid
  PROVE  IsFiniteSet(S) /\ Cardinality(S) \in Nat
<1>1. IsFiniteSet(Uid)
  BY BoundsAssumption, FS_Interval DEF Uid
<1> QED BY <1>1, FS_Subset, FS_CardinalityType

\* The batch is what is due up to some UID: nothing due is left out below a
\* member of it, and a batch that is not full is everything that is due.
LEMMA BatchIsInOrder ==
  ASSUME TypeOK
  PROVE  /\ GetUidsForRulesSince \subseteq Due
         /\ \A u \in GetUidsForRulesSince, v \in Due :
              v < u => v \in GetUidsForRulesSince
         /\ Cardinality(GetUidsForRulesSince) # MaxPerPass =>
              GetUidsForRulesSince = Due
<1> DEFINE B == GetUidsForRulesSince
           UpTo(u) == {v \in Due : v <= u}
<1>0. B = {u \in Due : Cardinality(UpTo(u)) <= MaxPerPass}
  BY DEF GetUidsForRulesSince
<1>1. Due \subseteq Uid /\ B \subseteq Due /\ \A u \in Due : u \in Int
  <2>1. Due \subseteq Uid
    BY DEF Due, TypeOK
  <2> QED BY <2>1, <1>0 DEF Uid
<1> HIDE DEF B
<1>2. ASSUME NEW u \in B, NEW v \in Due, v < u
      PROVE  v \in B
  <2>1. u \in Int /\ v \in Int
    BY <1>1
  <2>2. UpTo(v) \subseteq UpTo(u)
    <3> SUFFICES ASSUME NEW x \in Due, x <= v
                 PROVE  x <= u
      OBVIOUS
    <3>1. x \in Int
      BY <1>1
    <3> QED BY <3>1, <2>1, <1>2
  <2>3. UpTo(u) \in SUBSET Uid /\ UpTo(v) \in SUBSET Uid
    BY <1>1
  <2> HIDE DEF UpTo
  <2>4. IsFiniteSet(UpTo(u)) /\ Cardinality(UpTo(u)) \in Nat
        /\ Cardinality(UpTo(v)) \in Nat
    BY <2>3, UidsAreFinite
  <2>5. Cardinality(UpTo(v)) <= Cardinality(UpTo(u))
    BY <2>2, <2>4, FS_Subset
  <2>6. Cardinality(UpTo(u)) <= MaxPerPass
    BY <1>0
  <2>7. Cardinality(UpTo(v)) <= MaxPerPass
    BY <2>4, <2>5, <2>6, BoundsAssumption
  <2> QED BY <1>0, <2>7
<1>3. ASSUME B # Due
      PROVE  Cardinality(B) = MaxPerPass
  <2>1. PICK w \in Due \ B : \A u \in Due \ B : w <= u
    <3>1. Due \ B \in SUBSET Uid /\ Due \ B # {}
      BY <1>1, <1>3
    <3> QED BY <3>1, SmallestIsLeast
  <2>2. UpTo(w) = B \cup {w}
    <3>1. \A u \in B : u <= w
      <4> TAKE u \in B
      <4>1. u \in Int /\ w \in Int /\ w \notin B
        BY <1>1
      <4>2. ~(w < u)
        BY <4>1, <1>2
      <4> QED BY <4>1, <4>2
    <3>2. \A u \in Due : u <= w => u = w \/ u \in B
      <4> TAKE u \in Due
      <4>1. u \in Int /\ w \in Int
        BY <1>1
      <4> QED BY <4>1, <2>1
    <3>3. w \in Due /\ w <= w
      BY <1>1
    <3> QED BY <3>1, <3>2, <3>3, <1>1
  <2>3. IsFiniteSet(B) /\ Cardinality(B) \in Nat
    BY <1>1, UidsAreFinite
  <2>4. Cardinality(UpTo(w)) = Cardinality(B) + 1
    <3> HIDE DEF UpTo
    <3> QED BY <2>1, <2>2, <2>3, FS_AddElement
  <2>5. ~(Cardinality(UpTo(w)) <= MaxPerPass)
    BY <2>1, <1>0
  <2>6. Cardinality(B) <= MaxPerPass
    <3>1. CASE B = {}
      BY <3>1, FS_EmptySet, BoundsAssumption
    <3>2. CASE B # {}
      <4>1. PICK m \in B : \A u \in B : u <= m
        <5>1. B \in SUBSET Uid
          BY <1>1
        <5> QED BY <5>1, <3>2, LargestIsGreatest
      <4>2. ASSUME NEW u \in Due, u <= m
            PROVE  u \in B
        <5>1. u \in Int /\ m \in Int
          BY <1>1
        <5> QED BY <5>1, <4>2, <1>2
      <4>3. UpTo(m) = B
        BY <4>1, <4>2, <1>1
      <4>4. Cardinality(UpTo(m)) <= MaxPerPass
        BY <1>0
      <4> QED BY <4>3, <4>4
    <3> QED BY <3>1, <3>2
  <2> QED BY <2>3, <2>4, <2>5, <2>6, BoundsAssumption
<1>4. \A u \in B, v \in Due : v < u => v \in B
  BY <1>2
<1>5. Cardinality(B) # MaxPerPass => B = Due
  BY <1>3
<1> QED BY <1>1, <1>4, <1>5 DEF B

-----------------------------------------------------------------------------
(* One stretch of a pass *)

\* Where Evaluate stops: everything it leaves below the watermark is dealt
\* with, the message it stops at is the next one, and the rest comes later.
LEMMA EvaluateOutcome ==
  ASSUME TypeOK,
         NEW m \in 0..MaxUid, NEW batch \in SUBSET Uid, \A v \in batch : m < v,
         NEW touched \in SUBSET Uid, NEW rows \in SUBSET Uid,
         Evaluate(m, batch, touched, rows)
  PROVE  /\ mark' \in 0..MaxUid /\ m <= mark'
         /\ attempts' \in [Uid -> 0..MaxAttempts - 1]
         /\ rest' \in SUBSET Uid /\ uid' \in Uid \cup {0}
         /\ left' \in 0..MaxActions /\ under' \in Space
         /\ outcome' \in {"done", "aborted", "threw"}
         /\ handled' \subseteq rows
         /\ \A u \in rows : u \in handled' <=>
              \/ u \in handled \/ u \in touched
              \/ u \in batch /\ u <= mark'
         /\ mark' = m \/ mark' \in batch
         /\ \/ /\ pc' = "ended" /\ outcome' = "done"
               /\ \A v \in batch : v <= mark'
            \/ /\ pc' = "acting" /\ uid' \in batch /\ mark' < uid'
               /\ left' >= 1 /\ under' = recorded
               /\ \A v \in batch :
                    v <= mark' \/ v = uid' \/ (v \in rest' /\ uid' < v)
               /\ \A v \in rest' : v \in batch /\ uid' < v
<1> USE BoundsAssumption
<1>1. attempts' \in [Uid -> 0..MaxAttempts - 1]
  <2>1. \E D : attempts' = [u \in Uid |-> IF u \in D THEN 0 ELSE attempts[u]]
    BY DEF Evaluate
  <2>2. PICK D : attempts' = [u \in Uid |-> IF u \in D THEN 0 ELSE attempts[u]]
    BY <2>1
  <2>3. \A u \in Uid : attempts[u] \in 0..MaxAttempts - 1
    BY DEF TypeOK
  <2>4. 0 \in 0..MaxAttempts - 1
    OBVIOUS
  <2> QED BY <2>2, <2>3, <2>4
<1>2. 0 \in 0..MaxUid /\ 0 \in Uid \cup {0} /\ \A u \in Uid : u \in 1..MaxUid
  BY DEF Uid
<1>3. CASE /\ mark' = (IF batch = {} THEN m ELSE Largest(batch))
           /\ handled' = (handled \cup touched \cup batch) \cap rows
           /\ Ends("done")
  <2>1. (mark' = m /\ batch = {}) \/ (mark' \in batch /\ \A v \in batch : v <= mark')
    BY <1>3, LargestIsGreatest
  <2>2. mark' \in 0..MaxUid /\ m <= mark'
    BY <2>1, <1>2
  <2>3. \A v \in batch : v <= mark'
    BY <2>1
  <2>4. /\ rest' = {} /\ uid' = 0 /\ left' = 0 /\ under' = 0
        /\ outcome' = "done" /\ pc' = "ended"
    BY <1>3 DEF Ends
  <2>5. \A u \in rows : u \in handled' <=>
              \/ u \in handled \/ u \in touched
              \/ u \in batch /\ u <= mark'
    BY <1>3, <2>3
  <2>6. handled' \subseteq rows
    BY <1>3
  <2>7. left' \in 0..MaxActions /\ under' \in Space
    BY <2>4 DEF Space
  <2> QED BY <1>1, <2>1, <2>2, <2>3, <2>4, <2>5, <2>6, <2>7
<1>4. ASSUME NEW u \in batch \cap rows, NEW n \in 1..MaxActions,
             mark' = (IF {v \in batch : v < u} = {} THEN m
                      ELSE Largest({v \in batch : v < u})),
             handled' = (handled \cup touched \cup {v \in batch : v < u})
                           \cap rows,
             pc' = "acting", uid' = u, left' = n,
             rest' = {v \in batch : v > u},
             under' = recorded, outcome' = outcome
      PROVE  /\ mark' \in 0..MaxUid /\ m <= mark' /\ mark' < u
             /\ mark' = m \/ mark' \in batch
             /\ \A v \in batch : v <= mark' <=> v < u
  <2> DEFINE below == {v \in batch : v < u}
  <2>0. below \in SUBSET Uid /\ u \in 1..MaxUid /\ m \in Int
        /\ (\A v \in batch : v \in 1..MaxUid) /\ m < u
    BY <1>2
  <2>1. CASE below = {}
    <3>1. mark' = m
      BY <1>4, <2>1
    <3>2. \A v \in batch : ~(v < u)
      BY <2>1
    <3> QED BY <3>1, <3>2, <2>0
  <2>2. CASE below # {}
    <3>1. mark' = Largest(below)
      BY <1>4, <2>2
    <3>2. mark' \in below /\ \A v \in below : v <= mark'
      BY <3>1, <2>0, <2>2, LargestIsGreatest
    <3>3. mark' \in batch /\ mark' < u
      BY <3>2
    <3>4. \A v \in batch : v < u => v <= mark'
      BY <3>2
    <3> HIDE DEF below
    <3>5. \A v \in batch : v <= mark' => v < u
      BY <3>3, <2>0
    <3> QED BY <3>3, <3>4, <3>5, <2>0
  <2> QED BY <2>1, <2>2
<1>5. ASSUME NEW u \in batch \cap rows, NEW n \in 1..MaxActions,
             mark' = (IF {v \in batch : v < u} = {} THEN m
                      ELSE Largest({v \in batch : v < u})),
             handled' = (handled \cup touched \cup {v \in batch : v < u})
                           \cap rows,
             pc' = "acting", uid' = u, left' = n,
             rest' = {v \in batch : v > u},
             under' = recorded, outcome' = outcome
      PROVE  /\ rest' \in SUBSET Uid /\ uid' \in Uid \cup {0}
             /\ left' \in 0..MaxActions /\ left' >= 1
             /\ handled' \subseteq rows
             /\ \A v \in batch : v < u \/ v = u \/ (v \in rest' /\ u < v)
             /\ \A v \in rest' : v \in batch /\ u < v
  <2>1. n \in 0..MaxActions /\ n >= 1
    OBVIOUS
  <2>2. \A v \in batch : v \in Int /\ u \in Int
    BY <1>2
  <2>3. \A v \in batch : v < u \/ v = u \/ (v > u /\ u < v)
    BY <2>2
  <2> QED BY <1>5, <2>1, <2>3, <2>2
<1>6. CASE \E u \in batch \cap rows, n \in 1..MaxActions :
             /\ mark' = (IF {v \in batch : v < u} = {} THEN m
                         ELSE Largest({v \in batch : v < u}))
             /\ handled' = (handled \cup touched \cup {v \in batch : v < u})
                              \cap rows
             /\ pc' = "acting" /\ uid' = u /\ left' = n
             /\ rest' = {v \in batch : v > u}
             /\ under' = recorded /\ outcome' = outcome
  <2>1. PICK u \in batch \cap rows, n \in 1..MaxActions :
             /\ mark' = (IF {v \in batch : v < u} = {} THEN m
                         ELSE Largest({v \in batch : v < u}))
             /\ handled' = (handled \cup touched \cup {v \in batch : v < u})
                              \cap rows
             /\ pc' = "acting" /\ uid' = u /\ left' = n
             /\ rest' = {v \in batch : v > u}
             /\ under' = recorded /\ outcome' = outcome
    BY <1>6
  <2>2. /\ mark' \in 0..MaxUid /\ m <= mark' /\ mark' < u
        /\ mark' = m \/ mark' \in batch
        /\ \A v \in batch : v <= mark' <=> v < u
    BY <1>4, <2>1
  <2>3. /\ rest' \in SUBSET Uid /\ uid' \in Uid \cup {0}
        /\ left' \in 0..MaxActions /\ left' >= 1
        /\ handled' \subseteq rows
        /\ \A v \in batch : v < u \/ v = u \/ (v \in rest' /\ u < v)
        /\ \A v \in rest' : v \in batch /\ u < v
    BY <1>5, <2>1
  <2>4. \A v \in rows : v \in handled' <=>
          \/ v \in handled \/ v \in touched
          \/ v \in batch /\ v <= mark'
    <3>1. handled' = (handled \cup touched \cup {v \in batch : v < u})
                        \cap rows
      BY <2>1
    <3>2. \A v \in batch : v <= mark' <=> v < u
      BY <2>2
    <3> QED BY <3>1, <3>2
  <2>5. under' \in Space /\ outcome' \in {"done", "aborted", "threw"}
    BY <2>1 DEF TypeOK
  <2> QED BY <1>1, <2>1, <2>2, <2>3, <2>4, <2>5
<1>7. \/ /\ mark' = (IF batch = {} THEN m ELSE Largest(batch))
         /\ handled' = (handled \cup touched \cup batch) \cap rows
         /\ Ends("done")
      \/ \E u \in batch \cap rows, n \in 1..MaxActions :
             /\ mark' = (IF {v \in batch : v < u} = {} THEN m
                         ELSE Largest({v \in batch : v < u}))
             /\ handled' = (handled \cup touched \cup {v \in batch : v < u})
                              \cap rows
             /\ pc' = "acting" /\ uid' = u /\ left' = n
             /\ rest' = {v \in batch : v > u}
             /\ under' = recorded /\ outcome' = outcome
  BY DEF Evaluate
<1> QED BY <1>3, <1>6, <1>7

-----------------------------------------------------------------------------
(* The inductive invariant *)

\* The message acted on is above the watermark and below the rest.
Acting ==
  pc = "acting" =>
    /\ uid \in Uid /\ mark \in 0..MaxUid /\ mark < uid /\ left >= 1
    /\ \A v \in rest : uid < v

HandledBelow == \A u \in handled : u <= mark

\* What was due at the sample and is above the watermark comes later in the
\* batch, or after all of it.
InOrder ==
  pc = "acting" =>
    \A u \in sampled :
      u <= mark \/ u = uid \/ u \in rest \/ \A v \in rest \cup {uid} : v < u

\* Somebody will look again.
Noted == pending = "yes" \/ owed = "yes" \/ sync # "idle"

\* What is due is in the batch, or the batch was full, or noted, or was moved
\* here.
Covered ==
  /\ pc = "free" =>
       Noted \/ excuse # "none" \/ (Due = {} /\ ~Bumped)
  /\ pc = "ended" /\ outcome = "done" =>
       Noted \/ full = "yes" \/ excuse = "moved" \/ (Due = {} /\ ~Bumped)
  /\ pc = "acting" =>
       Noted \/ full = "yes" \/ excuse = "moved"
             \/ (Due \subseteq rest \cup {uid} /\ ~Bumped)

Inv ==
  /\ TypeOK /\ Acting /\ HandledBelow /\ ActsInItsSpace
  /\ InOrder /\ NothingIsSteppedOver
  /\ Covered

\* The invariant holds at the start, with or without a position.
THEOREM InitInv == Init => Inv
<1> SUFFICES ASSUME Init PROVE Inv
  OBVIOUS
<1> USE BoundsAssumption
<1>1. TypeOK
  BY DEF Init, TypeOK, Space, NoRow
<1>2. Acting /\ HandledBelow /\ ActsInItsSpace /\ InOrder
      /\ NothingIsSteppedOver
  BY DEF Init, Acting, HandledBelow, ActsInItsSpace, InOrder,
         NothingIsSteppedOver
<1>3. Due = {} /\ ~Bumped
  BY DEF Init, Due, Bumped
<1>4. Covered
  BY <1>3 DEF Init, Covered
<1> QED BY <1>1, <1>2, <1>4 DEF Inv

\* A round begins: anchored, or up to its first match.
LEMMA RoundOutcome ==
  ASSUME TypeOK, HandledBelow, RunOnePass, cache' = cache, recorded' = recorded
  PROVE  /\ mark' \in 0..MaxUid /\ validity' \in Space /\ valid' = recorded
         /\ attempts' \in [Uid -> 0..MaxAttempts - 1]
         /\ pc' \in {"acting", "ended"}
         /\ outcome' \in {"done", "aborted", "threw"}
         /\ rest' \in SUBSET Uid /\ uid' \in Uid \cup {0}
         /\ left' \in 0..MaxActions /\ under' \in Space
         /\ full' \in {"yes", "no"} /\ faults' = faults
         /\ sampled' \in SUBSET Uid /\ handled' \subseteq cache
         /\ Acting' /\ HandledBelow' /\ ActsInItsSpace'
         /\ InOrder' /\ NothingIsSteppedOver'
         /\ ~Bumped'
         /\ \/ full' = "yes"
            \/ pc' = "acting" /\ Due' \subseteq rest' \cup {uid'}
            \/ pc' = "ended" /\ Due' = {}
<1> USE BoundsAssumption
<1>1. CASE mark = NoRow \/ Bumped
  <2>1. Baseline /\ valid' = recorded /\ faults' = faults
    BY <1>1 DEF RunOnePass
  <2>2. mark' \in 0..MaxUid /\ \A u \in cache : u <= mark'
    <3>1. CASE cache = {}
      BY <2>1, <3>1 DEF Baseline, GetMaxUidForFolder
    <3>2. CASE cache # {}
      <4>1. Largest(cache) \in cache /\ \A u \in cache : u <= Largest(cache)
        BY <3>2, LargestIsGreatest DEF TypeOK
      <4>2. mark' = Largest(cache)
        BY <2>1, <3>2 DEF Baseline, GetMaxUidForFolder
      <4>3. Largest(cache) \in Uid
        BY <4>1 DEF TypeOK
      <4>4. \A u \in Uid : u \in 0..MaxUid
        BY DEF Uid
      <4> QED BY <4>1, <4>2, <4>3, <4>4
    <3> QED BY <3>1, <3>2
  <2>3. /\ validity' = recorded /\ attempts' = attempts /\ handled' = handled
        /\ pc' = "ended" /\ outcome' = "done" /\ rest' = {} /\ uid' = 0
        /\ left' = 0 /\ under' = 0 /\ full' = "no" /\ sampled' = {}
    BY <2>1 DEF Baseline, Ends
  <2>4. Due' = {}
    <3>1. \A u \in cache : u \in Int /\ ~(u > mark')
      BY <2>2 DEF TypeOK, Uid
    <3> QED BY <3>1 DEF Due
  <2>5. ~Bumped'
    BY <2>3 DEF Bumped
  <2>6. HandledBelow' /\ Acting' /\ ActsInItsSpace' /\ InOrder'
        /\ NothingIsSteppedOver'
    BY <2>2, <2>3 DEF HandledBelow, Acting, ActsInItsSpace, InOrder,
                      NothingIsSteppedOver, TypeOK
  <2>7. 0 \in Space /\ 0 \in 0..MaxActions
    BY DEF Space
  <2> QED BY <2>1, <2>2, <2>3, <2>4, <2>5, <2>6, <2>7 DEF TypeOK
<1>2. CASE ~(mark = NoRow \/ Bumped)
  <2> DEFINE B == GetUidsForRulesSince
  <2>1. /\ validity' = (IF validity = 0 THEN recorded ELSE validity)
        /\ sampled' = Due /\ valid' = recorded /\ faults' = faults
        /\ full' = (IF Cardinality(B) = MaxPerPass THEN "yes" ELSE "no")
        /\ Evaluate(mark, B, {}, cache)
    BY <1>2 DEF RunOnePass
  <2>2. mark \in 0..MaxUid /\ Due \in SUBSET Uid
        /\ \A u : u \in Due <=> u \in cache /\ u > mark
    BY <1>2 DEF TypeOK, Due
  <2>3. /\ B \subseteq Due
        /\ \A u \in B, v \in Due : v < u => v \in B
        /\ Cardinality(B) # MaxPerPass => B = Due
    BY BatchIsInOrder
  <2>4. B \in SUBSET Uid /\ \A v \in B : mark < v
    BY <2>2, <2>3 DEF Uid
  <2> HIDE DEF B
  <2>5. /\ mark' \in 0..MaxUid /\ mark <= mark'
        /\ attempts' \in [Uid -> 0..MaxAttempts - 1]
        /\ rest' \in SUBSET Uid /\ uid' \in Uid \cup {0}
        /\ left' \in 0..MaxActions /\ under' \in Space
        /\ outcome' \in {"done", "aborted", "threw"}
        /\ handled' \subseteq cache
        /\ \A u \in cache : u \in handled' <=>
             \/ u \in handled \/ u \in {}
             \/ u \in B /\ u <= mark'
        /\ mark' = mark \/ mark' \in B
        /\ \/ /\ pc' = "ended" /\ outcome' = "done"
              /\ \A v \in B : v <= mark'
           \/ /\ pc' = "acting" /\ uid' \in B /\ mark' < uid'
              /\ left' >= 1 /\ under' = recorded
              /\ \A v \in B :
                   v <= mark' \/ v = uid' \/ (v \in rest' /\ uid' < v)
              /\ \A v \in rest' : v \in B /\ uid' < v
    <3>1. cache \in SUBSET Uid /\ {} \in SUBSET Uid
      BY DEF TypeOK
    <3> QED BY <2>1, <2>2, <2>4, <3>1, EvaluateOutcome
  <2>6. \A u \in Due : u \in Int /\ u <= mark' => u \in B
    <3> TAKE u \in Due
    <3>1. u \in Int /\ mark < u /\ mark \in Int /\ mark' \in Int
      BY <2>2, <2>5 DEF Uid
    <3> QED BY <3>1, <2>3, <2>5
  <2>7. Acting' /\ ActsInItsSpace'
    BY <2>1, <2>4, <2>5 DEF Acting, ActsInItsSpace
  <2>8. HandledBelow'
    <3> SUFFICES ASSUME NEW u \in handled' PROVE u <= mark'
      BY DEF HandledBelow
    <3>1. u \in cache /\ u \in Int
      BY <2>5 DEF TypeOK, Uid
    <3>2. u \in handled \/ u <= mark'
      BY <3>1, <2>5
    <3>3. u \in handled => u <= mark
      BY DEF HandledBelow
    <3> QED BY <3>1, <3>2, <3>3, <2>2, <2>5
  <2>9. NothingIsSteppedOver'
    <3>1. \A u \in Due : u \in cache /\ (u <= mark' => u \in B)
      BY <2>2, <2>6 DEF Uid
    <3> QED BY <3>1, <2>1, <2>5 DEF NothingIsSteppedOver
  <2>10. InOrder'
    <3> SUFFICES ASSUME pc' = "acting", NEW u \in Due,
                        ~(u <= mark'), u # uid', u \notin rest',
                        NEW v \in rest' \cup {uid'}
                 PROVE  v < u
      BY <2>1 DEF InOrder
    <3>1. u \notin B /\ v \in B
      BY <2>5
    <3>2. u \in Int /\ v \in Int /\ v # u
      BY <3>1, <2>2, <2>4 DEF Uid
    <3>3. ~(u < v)
      BY <3>1, <2>3
    <3> QED BY <3>2, <3>3
  <2>11. ~Bumped'
    BY <1>2, <2>1, <2>2 DEF Bumped, TypeOK
  <2>12. ASSUME full' # "yes"
         PROVE  \/ pc' = "acting" /\ Due' \subseteq rest' \cup {uid'}
                \/ pc' = "ended" /\ Due' = {}
    <3>1. B = Due
      BY <2>1, <2>3, <2>12
    <3>2. \A u \in Due' : u \in Due /\ ~(u <= mark')
      <4> TAKE u \in Due'
      <4>1. u \in cache /\ u > mark'
        BY <2>5 DEF Due, NoRow
      <4> QED BY <4>1, <2>2, <2>5 DEF TypeOK, Uid
    <3> QED BY <3>1, <3>2, <2>5
  <2>13. validity' \in Space /\ full' \in {"yes", "no"}
         /\ pc' \in {"acting", "ended"}
    BY <2>1, <2>5 DEF TypeOK
  <2> QED BY <2>1, <2>2, <2>5, <2>7, <2>8, <2>9, <2>10, <2>11, <2>12, <2>13
<1> QED BY <1>1, <1>2

-----------------------------------------------------------------------------
(* The server and the writers *)

\* A writer may add rows, which are then not part of the sample, and take
\* rows away; if it does either, the rules are about to be triggered, or it is
\* a move.
LEMMA WriterKeepsInv ==
  ASSUME Inv, TypeOK', UNCHANGED runner,
         handled' \subseteq handled,
         \A u \in handled \cap sampled' : u \in cache' => u \in handled',
         sampled' \subseteq sampled,
         \A u \in sampled' : u \in cache' => u \in cache,
         Noted' \/ excuse' = "moved"
           \/ UNCHANGED <<cache, recorded, sync, owed, excuse>>
  PROVE  Inv'
<1> USE DEF Inv
<1>1. UNCHANGED <<mark, validity, attempts, pending, pc, round, valid, rest,
                  full, uid, left, outcome, under>>
  BY DEF runner, table, pass
<1>2. Acting' /\ ActsInItsSpace' /\ HandledBelow'
  BY <1>1 DEF Acting, ActsInItsSpace, HandledBelow
<1>3. InOrder'
  BY <1>1 DEF InOrder
<1>4. NothingIsSteppedOver'
  BY <1>1 DEF NothingIsSteppedOver
<1>5. Covered'
  <2>1. CASE Noted' \/ excuse' = "moved"
    BY <2>1 DEF Covered
  <2>2. CASE UNCHANGED <<cache, recorded, sync, owed, excuse>>
    <3>1. Due' = Due /\ (Bumped' <=> Bumped) /\ (Noted' <=> Noted)
      BY <1>1, <2>2 DEF Due, Bumped, Noted
    <3> QED BY <1>1, <3>1 DEF Covered
  <2> QED BY <2>1, <2>2
<1> QED BY <1>2, <1>3, <1>4, <1>5

\* The server's steps and the writers of the cache keep the invariant.
LEMMA WriterSteps ==
  ASSUME Inv,
         \/ Arrives \/ MovedIn \/ Renumbers \/ RowStored \/ FlagsScan
         \/ FallsBack \/ FullScan \/ BatchStored \/ SyncEnds \/ SyncFails
  PROVE  Inv'
<1> USE BoundsAssumption
<1>0. TypeOK
  BY DEF Inv
<1>1. CASE Arrives
  <2>1. top + 1 \in Uid /\ top + 1 \in 0..MaxUid
    BY <1>0, <1>1 DEF Arrives, TypeOK, Uid
  <2>2. TypeOK'
    BY <1>0, <1>1, <2>1 DEF Arrives, TypeOK, runner, table, pass
  <2> QED BY <1>1, <2>2, WriterKeepsInv DEF Arrives
<1>2. CASE Renumbers
  <2>1. /\ mail' \subseteq Uid /\ top' \in 0..MaxUid
        /\ space' \in Space \ {0}
    <3>1. Cardinality(mail) \in Nat
      BY <1>0, UidsAreFinite DEF TypeOK
    <3>2. PICK shift \in 0..MaxUid - Cardinality(mail) :
            /\ mail' = shift + 1..shift + Cardinality(mail)
            /\ top' = shift + Cardinality(mail)
      BY <1>2 DEF Renumbers
    <3>3. shift \in Int /\ shift >= 0 /\ shift + Cardinality(mail) <= MaxUid
      BY <3>1, <3>2
    <3>4. space + 1 \in Space \ {0}
      BY <1>0, <1>2 DEF Renumbers, TypeOK, Space
    <3>5. mail' \subseteq Uid
      BY <3>1, <3>2, <3>3 DEF Uid
    <3>6. top' \in 0..MaxUid
      BY <3>1, <3>2, <3>3
    <3>7. space' = space + 1
      BY <1>2 DEF Renumbers
    <3> QED BY <3>4, <3>5, <3>6, <3>7
  <2>2. UNCHANGED <<cache, recorded, sync, owed, runner, excuse, faults,
                    sampled, handled>>
    BY <1>2 DEF Renumbers
  <2>3. TypeOK'
    BY <1>0, <2>1, <2>2 DEF TypeOK, runner, table, pass
  <2> QED BY <2>2, <2>3, WriterKeepsInv
<1>3. CASE RowStored
  <2>1. TypeOK'
    BY <1>0, <1>3 DEF RowStored, TypeOK, runner, table, pass, server
  <2>2. Noted'
    BY <1>3 DEF RowStored, Noted
  <2> QED BY <1>0, <1>3, <2>1, <2>2, WriterKeepsInv DEF RowStored, TypeOK
<1>4. CASE FlagsScan
  <2>1. TypeOK'
    BY <1>0, <1>4 DEF FlagsScan, Purge, Reconcile, TypeOK, runner, table,
                      pass, server
  <2>2. Noted'
    BY <1>4 DEF FlagsScan, Noted
  <2> QED BY <1>0, <1>4, <2>1, <2>2, WriterKeepsInv
          DEF FlagsScan, Purge, Reconcile, TypeOK
<1>5. CASE FallsBack
  <2>1. TypeOK'
    BY <1>0, <1>5 DEF FallsBack, TypeOK, runner, table, pass, server
  <2>2. Noted'
    BY <1>5 DEF FallsBack, Noted
  <2> QED BY <1>5, <2>1, <2>2, WriterKeepsInv DEF FallsBack
<1>6. CASE FullScan
  <2>1. TypeOK'
    BY <1>0, <1>6 DEF FullScan, Purge, Reconcile, TypeOK, runner, table,
                      pass, server
  <2>2. Noted'
    BY <1>6 DEF FullScan, Noted
  <2> QED BY <1>0, <1>6, <2>1, <2>2, WriterKeepsInv
          DEF FullScan, Purge, Reconcile, TypeOK
<1>7. CASE BatchStored
  <2>1. Smallest(mail \ cache) \in mail \ cache
    <3>1. mail \ cache \in SUBSET Uid /\ mail \ cache # {}
      BY <1>0, <1>7 DEF BatchStored, TypeOK
    <3> QED BY <3>1, SmallestIsLeast
  <2>2. PICK u \in mail \ cache :
          cache' = cache \cup {u} /\ sampled' = sampled \ {u}
    BY <1>7, <2>1 DEF BatchStored
  <2>3. TypeOK'
    <3>1. UNCHANGED <<space, mail, top, recorded, sync, owed, runner, excuse,
                      faults, handled>>
      BY <1>7 DEF BatchStored, server
    <3>2. cache' \subseteq Uid /\ sampled' \subseteq Uid /\ handled' \subseteq cache'
      BY <1>0, <2>2, <3>1 DEF TypeOK
    <3> QED BY <1>0, <3>1, <3>2 DEF TypeOK, runner, table, pass
  <2>4. Noted'
    BY <1>7 DEF BatchStored, Noted
  <2> QED BY <1>0, <1>7, <2>2, <2>3, <2>4, WriterKeepsInv
          DEF BatchStored, TypeOK
<1>8. CASE SyncEnds
  <2>1. TypeOK'
    BY <1>0, <1>8 DEF SyncEnds, TypeOK, runner, table, pass, server
  <2>2. Noted'
    BY <1>8 DEF SyncEnds, Noted
  <2> QED BY <1>8, <2>1, <2>2, WriterKeepsInv DEF SyncEnds
<1>9. CASE SyncFails
  <2>1. TypeOK'
    BY <1>0, <1>9 DEF SyncFails, TypeOK, runner, table, pass, server
  <2>2. Noted'
    BY <1>9 DEF SyncFails, Noted
  <2> QED BY <1>9, <2>1, <2>2, WriterKeepsInv DEF SyncFails
<1>10. CASE MovedIn
  <2>1. top + 1 \in Uid /\ top + 1 \in 0..MaxUid
    BY <1>0, <1>10 DEF MovedIn, TypeOK, Uid
  <2>2. /\ UNCHANGED <<space, recorded, sync, owed, runner, faults>>
        /\ top' = top + 1 /\ mail' = mail \cup {top + 1}
        /\ cache' = cache \cup {top + 1} /\ excuse' = "moved"
        /\ sampled' = sampled \ {top + 1} /\ handled' = handled \ {top + 1}
    BY <1>10 DEF MovedIn
  <2>3. /\ top' \in 0..MaxUid /\ mail' \subseteq Uid /\ cache' \subseteq Uid
        /\ sampled' \subseteq Uid /\ handled' \subseteq cache'
    BY <1>0, <2>1, <2>2 DEF TypeOK
  <2>4. TypeOK'
    BY <1>0, <2>2, <2>3 DEF TypeOK, runner, table, pass
  <2>5. /\ \A u \in handled \cap sampled' : u \in handled'
        /\ \A u \in sampled' : u \in cache' => u \in cache
    BY <2>2
  <2> QED BY <2>2, <2>4, <2>5, WriterKeepsInv
<1> QED BY <1>1, <1>2, <1>3, <1>4, <1>5, <1>6, <1>7, <1>8, <1>9, <1>10

-----------------------------------------------------------------------------
(* The runner *)

\* processMailRules marks a running call or begins a round of its own.
LEMMA TriggerStep ==
  ASSUME Inv, Trigger
  PROVE  Inv'
<1> USE BoundsAssumption
<1>0. TypeOK /\ HandledBelow
  BY DEF Inv
<1>1. CASE pc # "free" /\ pending' = "yes"
           /\ UNCHANGED <<table, attempts, pc, pass, faults, under, sampled,
                          handled, excuse>>
  <2>1. TypeOK'
    BY <1>0, <1>1 DEF Trigger, TypeOK, table, pass, server
  <2>2. Acting' /\ HandledBelow' /\ ActsInItsSpace' /\ InOrder'
        /\ NothingIsSteppedOver'
    BY <1>1 DEF Trigger, Inv, Acting, HandledBelow, ActsInItsSpace, InOrder,
                NothingIsSteppedOver, table, pass
  <2>3. Covered'
    BY <1>1 DEF Covered, Noted
  <2> QED BY <2>1, <2>2, <2>3 DEF Inv
<1>2. CASE RunOnePass /\ pending' = "no" /\ round' = 1 /\ excuse' = "none"
  <2>1. /\ mark' \in 0..MaxUid /\ validity' \in Space /\ valid' = recorded
        /\ attempts' \in [Uid -> 0..MaxAttempts - 1]
        /\ pc' \in {"acting", "ended"}
        /\ outcome' \in {"done", "aborted", "threw"}
        /\ rest' \in SUBSET Uid /\ uid' \in Uid \cup {0}
        /\ left' \in 0..MaxActions /\ under' \in Space
        /\ full' \in {"yes", "no"} /\ faults' = faults
        /\ sampled' \in SUBSET Uid /\ handled' \subseteq cache
        /\ Acting' /\ HandledBelow' /\ ActsInItsSpace'
        /\ InOrder' /\ NothingIsSteppedOver'
        /\ ~Bumped'
        /\ \/ full' = "yes"
           \/ pc' = "acting" /\ Due' \subseteq rest' \cup {uid'}
           \/ pc' = "ended" /\ Due' = {}
    BY <1>0, <1>2, RoundOutcome DEF Trigger
  <2>2. TypeOK'
    BY <1>0, <1>2, <2>1 DEF Trigger, TypeOK, server
  <2>3. Covered'
    BY <2>1 DEF Covered
  <2> QED BY <2>1, <2>2, <2>3 DEF Inv
<1>3. CASE PassThrows /\ pending' = "no" /\ round' = 1 /\ excuse' = "none"
  <2>1. TypeOK'
    BY <1>0, <1>3 DEF Trigger, PassThrows, Ends, TypeOK, table, server, Space
  <2>2. Acting' /\ HandledBelow' /\ ActsInItsSpace' /\ InOrder'
        /\ NothingIsSteppedOver' /\ Covered'
    BY <1>3 DEF Trigger, PassThrows, Ends, Inv, Acting, HandledBelow,
                ActsInItsSpace, InOrder, NothingIsSteppedOver, Covered, table
  <2> QED BY <2>1, <2>2 DEF Inv
<1> QED BY <1>1, <1>2, <1>3 DEF Trigger

\* A call gives the key back or goes into its next round.
LEMMA RoundEndsStep ==
  ASSUME Inv, RoundEnds
  PROVE  Inv'
<1> USE BoundsAssumption
<1>0. TypeOK /\ HandledBelow
  BY DEF Inv
<1>1. ASSUME NEW served \in BOOLEAN, Release(served), excuse' \in {excuse, "cap"},
             ~served \/ excuse' = "cap" \/ (outcome = "done" /\ ~NextRound)
      PROVE  Inv'
  <2>1. TypeOK'
    BY <1>0, <1>1 DEF RoundEnds, Release, NoCall, TypeOK, table, server, Space
  <2>2. Acting' /\ HandledBelow' /\ ActsInItsSpace' /\ InOrder'
        /\ NothingIsSteppedOver'
    BY <1>1 DEF RoundEnds, Release, NoCall, Inv, Acting, HandledBelow,
                ActsInItsSpace, InOrder, NothingIsSteppedOver, table
  <2>3. Covered'
    <3>1. CASE ~served \/ excuse' = "cap"
      BY <1>1, <3>1 DEF Release, NoCall, Covered, Noted
    <3>2. CASE outcome = "done" /\ ~NextRound
      <4>1. \/ owed = "yes" \/ sync # "idle" \/ excuse = "moved"
            \/ Due = {} /\ ~Bumped
        BY <3>2, <1>0 DEF RoundEnds, NextRound, Inv, Covered, Noted
      <4>2. Due' = Due /\ (Bumped' <=> Bumped) /\ owed' = owed /\ sync' = sync
        BY <1>1 DEF RoundEnds, Release, Due, Bumped, table
      <4> QED BY <1>1, <4>1, <4>2 DEF Release, NoCall, Covered, Noted
    <3> QED BY <1>1, <3>1, <3>2
  <2> QED BY <2>1, <2>2, <2>3 DEF Inv
<1>2. ASSUME RunOnePass, pending' = "no", round' = round + 1,
             round < MaxRounds, UNCHANGED excuse
      PROVE  Inv'
  <2>1. /\ mark' \in 0..MaxUid /\ validity' \in Space /\ valid' = recorded
        /\ attempts' \in [Uid -> 0..MaxAttempts - 1]
        /\ pc' \in {"acting", "ended"}
        /\ outcome' \in {"done", "aborted", "threw"}
        /\ rest' \in SUBSET Uid /\ uid' \in Uid \cup {0}
        /\ left' \in 0..MaxActions /\ under' \in Space
        /\ full' \in {"yes", "no"} /\ faults' = faults
        /\ sampled' \in SUBSET Uid /\ handled' \subseteq cache
        /\ Acting' /\ HandledBelow' /\ ActsInItsSpace'
        /\ InOrder' /\ NothingIsSteppedOver'
        /\ ~Bumped'
        /\ \/ full' = "yes"
           \/ pc' = "acting" /\ Due' \subseteq rest' \cup {uid'}
           \/ pc' = "ended" /\ Due' = {}
    BY <1>0, <1>2, RoundOutcome DEF RoundEnds
  <2>2. round' \in 1..MaxRounds
    BY <1>0, <1>2 DEF TypeOK
  <2>3. TypeOK'
    BY <1>0, <1>2, <2>1, <2>2 DEF RoundEnds, TypeOK, server
  <2>4. Covered'
    BY <2>1 DEF Covered
  <2> QED BY <2>1, <2>3, <2>4 DEF Inv
<1>3. ASSUME PassThrows, pending' = "no", round' = round + 1,
             round < MaxRounds, UNCHANGED excuse
      PROVE  Inv'
  <2>1. round' \in 1..MaxRounds
    BY <1>0, <1>3 DEF TypeOK
  <2>2. TypeOK'
    BY <1>0, <1>3, <2>1 DEF RoundEnds, PassThrows, Ends, TypeOK, table,
                            server, Space
  <2>3. Acting' /\ HandledBelow' /\ ActsInItsSpace' /\ InOrder'
        /\ NothingIsSteppedOver' /\ Covered'
    BY <1>3 DEF RoundEnds, PassThrows, Ends, Inv, Acting, HandledBelow,
                ActsInItsSpace, InOrder, NothingIsSteppedOver, Covered, table
  <2> QED BY <2>2, <2>3 DEF Inv
<1>4. \/ Release(FALSE) /\ UNCHANGED excuse
      \/ Release(TRUE) /\ UNCHANGED excuse /\ outcome = "done" /\ ~NextRound
      \/ Release(TRUE) /\ excuse' = "cap"
      \/ /\ round < MaxRounds /\ pending' = "no" /\ round' = round + 1
         /\ RunOnePass \/ PassThrows
         /\ UNCHANGED excuse
  BY DEF RoundEnds
<1> QED BY <1>1, <1>2, <1>3, <1>4

\* What no outcome of an action changes.
ActionFrame ==
  /\ pc = "acting" /\ mail' \subseteq mail /\ cache' \subseteq cache
  /\ UNCHANGED <<space, top, recorded, sync, owed, validity, pending, round,
                 valid, full, faults, sampled, excuse>>

\* The message is done with and the pass goes on: what was due and is left is
\* still in the batch, and the UIDs it jumps over are those it evaluated.
LEMMA GoingOn ==
  ASSUME Inv, ActionFrame, ~SpaceChanged, Evaluate(uid, rest, {uid}, cache')
  PROVE  Inv'
<1> USE BoundsAssumption
<1>0. /\ TypeOK /\ HandledBelow /\ InOrder /\ NothingIsSteppedOver /\ Covered
      /\ uid \in Uid /\ mark \in 0..MaxUid /\ mark < uid
      /\ \A v \in rest : uid < v
  BY DEF Inv, Acting, ActionFrame
<1>1. /\ uid \in 0..MaxUid /\ rest \in SUBSET Uid /\ {uid} \in SUBSET Uid
      /\ cache' \in SUBSET Uid
  BY <1>0 DEF TypeOK, Uid, ActionFrame
<1>2. /\ mark' \in 0..MaxUid /\ uid <= mark'
      /\ attempts' \in [Uid -> 0..MaxAttempts - 1]
      /\ rest' \in SUBSET Uid /\ uid' \in Uid \cup {0}
      /\ left' \in 0..MaxActions /\ under' \in Space
      /\ outcome' \in {"done", "aborted", "threw"}
      /\ handled' \subseteq cache'
      /\ \A u \in cache' : u \in handled' <=>
           \/ u \in handled \/ u \in {uid}
           \/ u \in rest /\ u <= mark'
      /\ mark' = uid \/ mark' \in rest
      /\ \/ /\ pc' = "ended" /\ outcome' = "done"
            /\ \A v \in rest : v <= mark'
         \/ /\ pc' = "acting" /\ uid' \in rest /\ mark' < uid'
            /\ left' >= 1 /\ under' = recorded
            /\ \A v \in rest :
                 v <= mark' \/ v = uid' \/ (v \in rest' /\ uid' < v)
            /\ \A v \in rest' : v \in rest /\ uid' < v
  <2>1. TypeOK /\ \A v \in rest : uid < v
    BY <1>0
  <2>2. Evaluate(uid, rest, {uid}, cache')
    OBVIOUS
  <2> QED BY ONLY <2>1, <2>2, <1>1, EvaluateOutcome
<1>3. \A u \in Uid : u \in Int
  BY DEF Uid
<1>4. TypeOK'
  <2>1. pc' \in {"acting", "ended"}
    BY <1>2
  <2>2. /\ space' \in Space \ {0} /\ mail' \subseteq Uid /\ top' \in 0..MaxUid
        /\ cache' \subseteq Uid /\ recorded' \in Space
        /\ sync' \in {"idle", "changed", "refill", "fetching"}
        /\ owed' \in {"yes", "no"} /\ validity' \in Space
    BY <1>0, <1>1 DEF TypeOK, ActionFrame
  <2>3. /\ pending' \in {"yes", "no"} /\ round' \in 1..MaxRounds
        /\ valid' \in Space /\ full' \in {"yes", "no"}
        /\ faults' \in 0..MaxFaults /\ sampled' \subseteq Uid
        /\ excuse' \in {"none", "cap", "crash", "moved"}
    BY <1>0 DEF TypeOK, ActionFrame
  <2> QED BY <1>2, <2>1, <2>2, <2>3 DEF TypeOK
<1>5. Acting'
  BY <1>1, <1>2 DEF Acting
<1>6. ActsInItsSpace'
  BY <1>2 DEF ActsInItsSpace, SpaceChanged, ActionFrame
<1>7. HandledBelow'
  <2> SUFFICES ASSUME NEW u \in handled' PROVE u <= mark'
    BY DEF HandledBelow
  <2>1. u \in cache' /\ u \in Int /\ (u \in handled => u <= mark)
    BY <1>0, <1>1, <1>2, <1>3 DEF HandledBelow
  <2>2. u \in handled \/ u = uid \/ u <= mark'
    BY <2>1, <1>2
  <2> QED BY <2>1, <2>2, <1>0, <1>1, <1>2, <1>3
<1>8. ASSUME NEW u \in sampled
      PROVE  /\ u \in Int
             /\ u <= mark \/ u = uid \/ u \in rest
                \/ \A v \in rest \cup {uid} : v < u
  BY <1>0, <1>3 DEF InOrder, TypeOK, ActionFrame
<1>9. NothingIsSteppedOver'
  <2> SUFFICES ASSUME NEW u \in sampled, u \in cache', u <= mark'
               PROVE  u \in handled'
    BY DEF NothingIsSteppedOver, ActionFrame
  <2>1. CASE u <= mark
    BY <2>1, <1>0, <1>2 DEF NothingIsSteppedOver, ActionFrame
  <2>2. CASE u = uid \/ u \in rest
    BY <2>2, <1>2
  <2>3. CASE \A v \in rest \cup {uid} : v < u
    <3>1. mark' < u
      BY <2>3, <1>2
    <3> QED BY <3>1, <1>2, <1>8
  <2> QED BY <2>1, <2>2, <2>3, <1>8
<1>10. InOrder'
  <2> SUFFICES ASSUME pc' = "acting", NEW u \in sampled
               PROVE  \/ u <= mark' \/ u = uid' \/ u \in rest'
                      \/ \A v \in rest' \cup {uid'} : v < u
    BY DEF InOrder, ActionFrame
  <2>1. CASE u <= mark
    BY <2>1, <1>0, <1>1, <1>2, <1>3, <1>8
  <2>2. CASE u = uid \/ u \in rest
    BY <2>2, <1>2
  <2>3. CASE \A v \in rest \cup {uid} : v < u
    BY <2>3, <1>2
  <2> QED BY <2>1, <2>2, <2>3, <1>8
<1>11. Covered'
  <2>1. (Noted' <=> Noted) /\ full' = full
    BY DEF Noted, ActionFrame
  <2>2. ASSUME Due \subseteq rest \cup {uid}, ~Bumped
        PROVE  /\ ~Bumped'
               /\ pc' = "ended" => Due' = {}
               /\ pc' = "acting" => Due' \subseteq rest' \cup {uid'}
    <3>1. ~Bumped'
      BY <2>2, <1>0 DEF Bumped, ActionFrame, NoRow
    <3>2. \A u \in Due' : u \in rest /\ ~(u <= mark')
      <4> TAKE u \in Due'
      <4>1. u \in cache' /\ u > mark' /\ u \in Int
        BY <1>1, <1>3 DEF Due
      <4>2. u > mark /\ ~(u <= mark') /\ u # uid
        BY <4>1, <1>0, <1>1, <1>2
      <4>3. u \in Due
        BY <4>1, <4>2, <1>0 DEF Due, NoRow, ActionFrame
      <4> QED BY <4>2, <4>3, <2>2
    <3> QED BY <3>1, <3>2, <1>2
  <2>3. \/ Noted \/ full = "yes" \/ excuse = "moved"
        \/ Due \subseteq rest \cup {uid} /\ ~Bumped
    BY <1>0 DEF Covered, ActionFrame
  <2>4. excuse' = excuse
    BY DEF ActionFrame
  <2> QED BY <2>1, <2>2, <2>3, <2>4, <1>2 DEF Covered
<1> QED BY <1>4, <1>5, <1>6, <1>7, <1>9, <1>10, <1>11 DEF Inv

\* The pass stops: the watermark stays below the message it stopped at.
LEMMA Stopping ==
  ASSUME Inv, ActionFrame, Abort, handled' = handled \cap cache',
         attempts' \in [Uid -> 0..MaxAttempts - 1]
  PROVE  Inv'
<1> USE BoundsAssumption
<1>1. /\ mark' = mark /\ pc' = "ended" /\ outcome' = "aborted" /\ rest' = {}
      /\ uid' = 0 /\ left' = 0 /\ under' = 0
  BY DEF Abort, Ends
<1>2. TypeOK
  BY DEF Inv
<1>3. /\ 0 \in Uid \cup {0} /\ 0 \in 0..MaxActions /\ 0 \in Space
  BY DEF Space
<1>4. TypeOK'
  <2>1. /\ space' \in Space \ {0} /\ mail' \subseteq Uid /\ top' \in 0..MaxUid
        /\ cache' \subseteq Uid /\ recorded' \in Space
        /\ sync' \in {"idle", "changed", "refill", "fetching"}
        /\ owed' \in {"yes", "no"} /\ validity' \in Space
        /\ mark' \in {NoRow} \cup 0..MaxUid
    BY <1>1, <1>2 DEF TypeOK, ActionFrame
  <2>2. /\ pending' \in {"yes", "no"} /\ round' \in 1..MaxRounds
        /\ valid' \in Space /\ full' \in {"yes", "no"}
        /\ faults' \in 0..MaxFaults /\ sampled' \subseteq Uid
        /\ excuse' \in {"none", "cap", "crash", "moved"}
        /\ handled' \subseteq cache'
    BY <1>2 DEF TypeOK, ActionFrame
  <2> QED BY <1>1, <1>3, <2>1, <2>2 DEF TypeOK
<1>5. Acting' /\ ActsInItsSpace' /\ InOrder' /\ Covered'
  BY <1>1 DEF Acting, ActsInItsSpace, InOrder, Covered
<1>6. HandledBelow' /\ NothingIsSteppedOver'
  BY <1>1 DEF Inv, HandledBelow, NothingIsSteppedOver, ActionFrame
<1> QED BY <1>4, <1>5, <1>6 DEF Inv

\* One action of the message is done and the next one goes out.
LEMMA NextActionStep ==
  ASSUME Inv, ActionFrame, NextAction
  PROVE  Inv'
<1> USE BoundsAssumption
<1>0. TypeOK /\ Acting /\ HandledBelow /\ InOrder /\ NothingIsSteppedOver
      /\ Covered
  BY DEF Inv
<1>1. CASE SpaceChanged /\ Abort
  BY <1>0, <1>1, Stopping DEF NextAction, TypeOK
<1>2. CASE /\ ~SpaceChanged
           /\ left' = left - 1 /\ under' = recorded
           /\ UNCHANGED <<mark, pc, rest, uid, outcome>>
  <2>0. /\ left > 1 /\ handled' = handled \cap cache' /\ attempts' = attempts
    BY DEF NextAction
  <2>1. left' \in 0..MaxActions /\ left' >= 1
    BY <1>0, <1>2, <2>0 DEF TypeOK
  <2>2. TypeOK'
    <3>1. /\ space' \in Space \ {0} /\ mail' \subseteq Uid
          /\ top' \in 0..MaxUid
          /\ cache' \subseteq Uid /\ recorded' \in Space
          /\ sync' \in {"idle", "changed", "refill", "fetching"}
          /\ owed' \in {"yes", "no"} /\ validity' \in Space
          /\ mark' \in {NoRow} \cup 0..MaxUid
          /\ attempts' \in [Uid -> 0..MaxAttempts - 1]
      BY <1>0, <1>2, <2>0 DEF TypeOK, ActionFrame
    <3>2. /\ pending' \in {"yes", "no"} /\ round' \in 1..MaxRounds
          /\ valid' \in Space /\ full' \in {"yes", "no"}
          /\ faults' \in 0..MaxFaults /\ sampled' \subseteq Uid
          /\ excuse' \in {"none", "cap", "crash", "moved"}
          /\ handled' \subseteq cache' /\ under' \in Space
      BY <1>0, <1>2, <2>0 DEF TypeOK, ActionFrame
    <3>3. /\ rest' \subseteq Uid /\ uid' \in Uid \cup {0}
          /\ outcome' \in {"done", "aborted", "threw"}
          /\ pc' \in {"free", "acting", "ended"}
      BY <1>0, <1>2 DEF TypeOK
    <3> QED BY <2>1, <3>1, <3>2, <3>3 DEF TypeOK
  <2>3. Acting'
    BY <1>0, <1>2, <2>1 DEF Acting, ActionFrame
  <2>4. ActsInItsSpace'
    BY <1>2 DEF ActsInItsSpace, SpaceChanged, ActionFrame
  <2>5. HandledBelow' /\ InOrder' /\ NothingIsSteppedOver'
    BY <1>0, <1>2, <2>0 DEF HandledBelow, InOrder, NothingIsSteppedOver,
                            ActionFrame
  <2>6. Covered'
    <3>1. Due' \subseteq Due /\ (Bumped' <=> Bumped) /\ (Noted' <=> Noted)
      BY <1>2 DEF Due, Bumped, Noted, ActionFrame
    <3> QED BY <1>0, <1>2, <3>1 DEF Covered, ActionFrame
  <2> QED BY <2>2, <2>3, <2>4, <2>5, <2>6 DEF Inv
<1> QED BY <1>1, <1>2 DEF NextAction

\* An action that is answered, whether or not it was the message's last.
LEMMA ActionDoneStep ==
  ASSUME Inv, ActionDone
  PROVE  Inv'
<1> USE BoundsAssumption
<1>0. TypeOK /\ uid \in Uid
  BY DEF Inv, Acting, ActionDone
<1>1. ActionFrame
  BY DEF ActionDone, ActionFrame
<1>2. [attempts EXCEPT ![uid] = 0] \in [Uid -> 0..MaxAttempts - 1]
  BY <1>0 DEF TypeOK
<1>3. CASE NextAction
  BY <1>1, <1>3, NextActionStep
<1>4. CASE SpaceChanged /\ Abort
           /\ attempts' = [attempts EXCEPT ![uid] = 0]
           /\ handled' = handled \cap cache'
  BY <1>1, <1>2, <1>4, Stopping
<1>5. CASE ~SpaceChanged /\ Evaluate(uid, rest, {uid}, cache')
  BY <1>1, <1>5, GoingOn
<1> QED BY <1>3, <1>4, <1>5 DEF ActionDone, LastAction

\* An action that fails is retried by a later pass or given up.
LEMMA ActionFailsStep ==
  ASSUME Inv, ActionFails
  PROVE  Inv'
<1> USE BoundsAssumption
<1>0. TypeOK /\ uid \in Uid
  BY DEF Inv, Acting, ActionFails
<1>1. ActionFrame /\ cache' = cache
  BY DEF ActionFails, ActionFrame
<1>2. [attempts EXCEPT ![uid] = 0] \in [Uid -> 0..MaxAttempts - 1]
  BY <1>0 DEF TypeOK
<1>3. handled \cap cache' = handled
  BY <1>0, <1>1 DEF TypeOK
<1>4. CASE /\ ~LastAttempt
           /\ attempts' = [attempts EXCEPT ![uid] = @ + 1]
           /\ Abort /\ UNCHANGED handled
  <2>1. attempts[uid] + 1 \in 0..MaxAttempts - 1
    BY <1>0, <1>4 DEF TypeOK, LastAttempt
  <2>2. attempts' \in [Uid -> 0..MaxAttempts - 1]
    BY <1>0, <1>4, <2>1 DEF TypeOK
  <2> QED BY <1>1, <1>3, <1>4, <2>2, Stopping
<1>5. CASE /\ SpaceChanged /\ Abort
           /\ attempts' = [attempts EXCEPT ![uid] = 0]
           /\ UNCHANGED handled
  BY <1>1, <1>2, <1>3, <1>5, Stopping
<1>6. CASE ~SpaceChanged /\ Evaluate(uid, rest, {uid}, cache)
  BY <1>1, <1>6, GoingOn
<1> QED BY <1>4, <1>5, <1>6 DEF ActionFails

\* A restart keeps the watermark, or anchors a folder that had none.
LEMMA RestartsStep ==
  ASSUME Inv, Restarts
  PROVE  Inv'
<1> USE BoundsAssumption
<1>0. TypeOK /\ HandledBelow /\ NothingIsSteppedOver
  BY DEF Inv
<1>1. /\ pc' = "free" /\ round' = 1 /\ valid' = 0 /\ rest' = {} /\ full' = "no"
      /\ uid' = 0 /\ left' = 0 /\ outcome' = "done" /\ under' = 0
      /\ sampled' = {} /\ attempts' = [u \in Uid |-> 0] /\ pending' = "no"
      /\ sync' = "idle" /\ owed' = "no" /\ excuse' = "crash"
      /\ faults' \in 0..MaxFaults
      /\ UNCHANGED <<space, mail, top, cache, recorded, handled>>
  BY <1>0 DEF Restarts, NoCall, server, TypeOK
<1>2. /\ mark' \in {NoRow} \cup 0..MaxUid /\ validity' \in Space
      /\ mark' = mark \/ \A u \in cache : u <= mark'
  <2>1. CASE UNCHANGED table
    BY <2>1, <1>0 DEF table, TypeOK
  <2>2. CASE mark' = GetMaxUidForFolder /\ validity' = recorded
    <3>1. CASE cache = {}
      BY <2>2, <3>1, <1>0 DEF GetMaxUidForFolder, TypeOK
    <3>2. CASE cache # {}
      <4>1. Largest(cache) \in cache /\ \A u \in cache : u <= Largest(cache)
        BY <3>2, <1>0, LargestIsGreatest DEF TypeOK
      <4>2. Largest(cache) \in Uid
        BY <4>1, <1>0 DEF TypeOK
      <4>3. \A u \in Uid : u \in 0..MaxUid
        BY DEF Uid
      <4>4. mark' = Largest(cache)
        BY <2>2, <3>2 DEF GetMaxUidForFolder
      <4> QED BY <4>1, <4>2, <4>3, <4>4, <2>2, <1>0 DEF TypeOK
    <3> QED BY <3>1, <3>2
  <2> QED BY <2>1, <2>2 DEF Restarts
<1>3. TypeOK'
  <2>1. 0 \in Space /\ 0 \in 0..MaxActions /\ 1 \in 1..MaxRounds
        /\ [u \in Uid |-> 0] \in [Uid -> 0..MaxAttempts - 1]
    BY DEF Space
  <2> QED BY <1>0, <1>1, <1>2, <2>1 DEF TypeOK
<1>4. HandledBelow'
  BY <1>0, <1>1, <1>2 DEF HandledBelow, TypeOK
<1>5. Acting' /\ ActsInItsSpace' /\ InOrder' /\ NothingIsSteppedOver' /\ Covered'
  BY <1>1 DEF Acting, ActsInItsSpace, InOrder, NothingIsSteppedOver, Covered
<1> QED BY <1>3, <1>4, <1>5 DEF Inv

-----------------------------------------------------------------------------
(* The theorems *)

\* Every step keeps the invariant.
THEOREM StepInv == Inv /\ [Next]_vars => Inv'
<1> SUFFICES ASSUME Inv, [Next]_vars PROVE Inv'
  OBVIOUS
<1>1. CASE UNCHANGED vars
  <2>1. TypeOK' /\ HandledBelow'
    BY <1>1 DEF vars, server, table, pass, Inv, TypeOK, HandledBelow
  <2>2. Acting' /\ ActsInItsSpace' /\ InOrder' /\ NothingIsSteppedOver'
    BY <1>1 DEF vars, table, pass, Inv, Acting, ActsInItsSpace, InOrder,
                NothingIsSteppedOver
  <2>3. Covered'
    BY <1>1 DEF vars, table, pass, Inv, Covered, Noted, Due, Bumped
  <2> QED BY <2>1, <2>2, <2>3 DEF Inv
<1>2. CASE Next
  BY <1>2, TriggerStep, RoundEndsStep, ActionDoneStep, ActionFailsStep,
     WriterSteps, RestartsStep DEF Next
<1> QED BY <1>1, <1>2

\* So it holds always.
LEMMA AlwaysInv == Spec => []Inv
BY InitInv, StepInv, PTL DEF Spec

\* An action is launched only in the recorded numbering its pass was sampled
\* under, and never for a message the rules are through with.
THEOREM RulesActSafely == Spec => [](TypeOK /\ ActsInItsSpace /\ ActsOnce)
<1>1. Inv => TypeOK /\ ActsInItsSpace /\ ActsOnce
  <2> SUFFICES ASSUME Inv PROVE ActsOnce
    BY DEF Inv
  <2> SUFFICES ASSUME pc = "acting", uid \in handled PROVE FALSE
    BY DEF ActsOnce
  <2>1. uid \in Uid /\ mark \in 0..MaxUid /\ mark < uid
    BY DEF Inv, Acting
  <2>2. uid <= mark
    BY DEF Inv, HandledBelow
  <2>3. uid \in Int
    BY <2>1 DEF Uid
  <2> QED BY <2>1, <2>2, <2>3
<1> QED BY <1>1, AlwaysInv, PTL

\* The watermark never passes a row that waited when the pass took its batch.
THEOREM BatchesLoseNothing == Spec => []NothingIsSteppedOver
<1>1. Inv => NothingIsSteppedOver
  BY DEF Inv
<1> QED BY <1>1, AlwaysInv, PTL

\* Work that is left when no pass runs is on somebody's list.
THEOREM WorkStaysOnTheList == Spec => []WorkIsRemembered
<1>1. Inv => WorkIsRemembered
  <2> SUFFICES ASSUME Inv, Due # {} \/ Bumped, pc = "free"
               PROVE  pending = "yes" \/ owed = "yes" \/ sync # "idle"
                      \/ excuse # "none"
    BY DEF WorkIsRemembered
  <2> QED BY DEF Inv, Covered, Noted
<1> QED BY <1>1, AlwaysInv, PTL

\* Every variable keeps its type.
THEOREM TypeCorrect == Spec => []TypeOK
BY RulesActSafely, PTL

\* An action is launched only in the recorded numbering its pass was sampled
\* under.
THEOREM RulesKeepTheirSpace == Spec => []ActsInItsSpace
BY RulesActSafely, PTL

(***************************************************************************)
(* What a step may never do                                                *)
(***************************************************************************)

\* The watermark goes back only when the folder has another numbering, and
\* then to where the cache ends: no failed action, repeated round, restart or
\* header sync makes the rules see a message of this numbering again.
MarkGoesUp ==
  [][mark <= mark' \/ (Bumped /\ mark' = GetMaxUidForFolder)]_vars

RunnerSteps == ActionDone \/ ActionFails \/ RoundEnds

\* A call is nearer to its end: it is over, or in its next round, or in the
\* same round done with the batch, or at a later message, or at a later action.
Further ==
  \/ pc' = "free"
  \/ round' = round + 1
  \/ /\ round' = round /\ pc = "acting"
     /\ pc' = "ended" \/ uid < uid' \/ (uid' = uid /\ left' < left)

\* Every await of runMailRules that resolves takes the call further and
\* nothing else takes it back.  With TypeOK (round, uid and left stay within
\* MaxRounds, MaxUid and MaxActions) this bounds the awaits of one call, so
\* the folder's key cannot stay in inFlight as long as actions are answered.
CallsMoveOn ==
  [][/\ RunnerSteps => Further
     /\ pc # "free" => Further \/ UNCHANGED <<pc, round, uid, left>>]_vars

\* The rest of a batch: up, and either through or at a later message.
LEMMA RestIsLater ==
  ASSUME Inv, pc = "acting", NEW rows \in SUBSET Uid, round' = round,
         Evaluate(uid, rest, {uid}, rows)
  PROVE  mark <= mark' /\ Further
<1>1. /\ TypeOK /\ uid \in Uid /\ mark \in 0..MaxUid /\ mark < uid
      /\ \A v \in rest : uid < v
  BY DEF Inv, Acting
<1>2. uid \in 0..MaxUid /\ rest \in SUBSET Uid /\ {uid} \in SUBSET Uid
  BY <1>1, BoundsAssumption DEF TypeOK, Uid
<1>3. /\ mark' \in 0..MaxUid /\ uid <= mark'
      /\ pc' = "ended" \/ (pc' = "acting" /\ uid' \in rest)
  <2>1. TypeOK /\ \A v \in rest : uid < v
    BY <1>1
  <2>2. Evaluate(uid, rest, {uid}, rows) /\ rows \in SUBSET Uid
    OBVIOUS
  <2>3. /\ mark' \in 0..MaxUid /\ uid <= mark'
        /\ \/ /\ pc' = "ended" /\ outcome' = "done"
              /\ \A v \in rest : v <= mark'
           \/ /\ pc' = "acting" /\ uid' \in rest /\ mark' < uid'
              /\ left' >= 1 /\ under' = recorded
              /\ \A v \in rest :
                   v <= mark' \/ v = uid' \/ (v \in rest' /\ uid' < v)
              /\ \A v \in rest' : v \in rest /\ uid' < v
    BY ONLY <2>1, <2>2, <1>2, EvaluateOutcome
  <2> QED BY <2>3
<1>4. mark <= mark'
  BY <1>1, <1>2, <1>3
<1>5. pc' = "ended" \/ uid < uid'
  BY <1>1, <1>3
<1> QED BY <1>4, <1>5 DEF Further

\* An action that is answered, or fails.
LEMMA ActionsMoveOn ==
  ASSUME Inv, ActionDone \/ ActionFails
  PROVE  mark <= mark' /\ Further
<1>0. pc = "acting" /\ round' = round
  BY DEF ActionDone, ActionFails
<1>1. /\ TypeOK /\ mark \in Int /\ left \in Int
      /\ cache \in SUBSET Uid /\ cache' \in SUBSET Uid
  BY <1>0, BoundsAssumption DEF Inv, TypeOK, Acting, ActionDone, ActionFails
<1>2. CASE Abort
  BY <1>0, <1>1, <1>2 DEF Abort, Ends, Further
<1>3. CASE Evaluate(uid, rest, {uid}, cache')
  BY <1>0, <1>1, <1>3, RestIsLater
<1>4. CASE Evaluate(uid, rest, {uid}, cache)
  BY <1>0, <1>1, <1>4, RestIsLater
<1>5. CASE left' = left - 1 /\ UNCHANGED <<mark, pc, rest, uid, outcome>>
  BY <1>0, <1>1, <1>5 DEF Further
<1> QED
  BY <1>2, <1>3, <1>4, <1>5
  DEF ActionDone, NextAction, LastAction, ActionFails

\* Where a folder is anchored.
LEMMA AnchorType ==
  ASSUME TypeOK
  PROVE  GetMaxUidForFolder \in 0..MaxUid
<1>1. CASE cache = {}
  BY <1>1, BoundsAssumption DEF GetMaxUidForFolder
<1>2. CASE cache # {}
  <2>1. Largest(cache) \in Uid
    BY <1>2, LargestIsGreatest DEF TypeOK
  <2>2. \A u \in Uid : u \in 0..MaxUid
    BY BoundsAssumption DEF Uid
  <2> QED BY <1>2, <2>1, <2>2 DEF GetMaxUidForFolder
<1> QED BY <1>1, <1>2

\* A round begins at the watermark or anchors the folder anew.
LEMMA RoundsGoUp ==
  ASSUME Inv, RunOnePass \/ PassThrows, cache' = cache
  PROVE  mark <= mark' \/ (Bumped /\ mark' = GetMaxUidForFolder)
<1>0. TypeOK /\ mark \in Int /\ MaxUid \in Nat
  BY BoundsAssumption DEF Inv, TypeOK, NoRow
<1>1. CASE PassThrows
  BY <1>0, <1>1 DEF PassThrows, table
<1>2. CASE RunOnePass
  <2>1. CASE mark = NoRow \/ Bumped
    <3>1. mark' = GetMaxUidForFolder
      BY <1>2, <2>1 DEF RunOnePass, Baseline
    <3>2. GetMaxUidForFolder \in 0..MaxUid
      BY <1>0, AnchorType
    <3>3. mark = NoRow => mark <= mark'
      BY <1>0, <3>1, <3>2 DEF NoRow
    <3> QED BY <2>1, <3>1, <3>3
  <2>2. CASE ~(mark = NoRow \/ Bumped)
    <3>1. Evaluate(mark, GetUidsForRulesSince, {}, cache)
      BY <1>2, <2>2 DEF RunOnePass
    <3>2. mark \in 0..MaxUid /\ cache \in SUBSET Uid /\ {} \in SUBSET Uid
      BY <1>0, <2>2 DEF TypeOK
    <3>3. /\ GetUidsForRulesSince \in SUBSET Uid
          /\ \A v \in GetUidsForRulesSince : mark < v
      <4>1. Due \in SUBSET Uid /\ \A v \in Due : mark < v
        BY <3>2 DEF Due, Uid, NoRow
      <4> QED BY <4>1, <1>0, BatchIsInOrder
    <3> QED BY <1>0, <3>1, <3>2, <3>3, EvaluateOutcome
  <2> QED BY <2>1, <2>2
<1> QED BY <1>1, <1>2

\* Every step, with the case it falls under.
LEMMA StepsMoveOn ==
  ASSUME Inv, [Next]_vars
  PROVE  /\ mark <= mark' \/ (Bumped /\ mark' = GetMaxUidForFolder)
         /\ RunnerSteps => Further
         /\ pc # "free" => Further \/ UNCHANGED <<pc, round, uid, left>>
<1> DEFINE Up == mark <= mark' \/ (Bumped /\ mark' = GetMaxUidForFolder)
           Same == UNCHANGED <<pc, round, uid, left>>
<1>0. TypeOK /\ mark \in Int
  BY BoundsAssumption DEF Inv, TypeOK, NoRow
<1>1. CASE ActionDone \/ ActionFails
  BY <1>1, ActionsMoveOn
<1>2. CASE RoundEnds
  <2>1. ASSUME Release(TRUE) \/ Release(FALSE) PROVE Up /\ Further
    BY <2>1, <1>0 DEF Release, NoCall, Further, table
  <2>2. ASSUME round' = round + 1, RunOnePass \/ PassThrows PROVE Up /\ Further
    BY <2>2, <1>2, RoundsGoUp DEF RoundEnds, Further
  <2> QED BY <1>2, <2>1, <2>2 DEF RoundEnds
<1>3. CASE Trigger
  <2>1. CASE pc # "free"
    <3>1. mark' = mark /\ UNCHANGED <<pc, round, uid, left>>
      BY <1>3, <2>1 DEF Trigger, table, pass
    <3>2. RunnerSteps => Further
      BY <1>1, <1>2 DEF RunnerSteps
    <3> QED BY <1>0, <3>1, <3>2
  <2>2. CASE pc = "free"
    <3>1. ~RunnerSteps
      BY <2>2 DEF RunnerSteps, ActionDone, ActionFails, RoundEnds
    <3>2. (RunOnePass \/ PassThrows) /\ cache' = cache
      BY <1>3, <2>2 DEF Trigger
    <3> QED BY <2>2, <3>1, <3>2, RoundsGoUp
  <2> QED BY <2>1, <2>2
<1>4. CASE Restarts
  <2>1. pc' = "free"
    BY <1>4 DEF Restarts, NoCall
  <2>2. Up
    <3>1. CASE UNCHANGED table
      BY <3>1, <1>0 DEF table
    <3>2. CASE mark = NoRow /\ mark' = GetMaxUidForFolder
      <4>1. GetMaxUidForFolder \in 0..MaxUid
        BY <1>0, AnchorType
      <4> QED BY <3>2, <4>1, BoundsAssumption DEF NoRow
    <3> QED BY <1>4, <3>1, <3>2 DEF Restarts
  <2> QED BY <2>1, <2>2 DEF Further
<1>5. CASE UNCHANGED runner
  <2>1. mark' = mark /\ Same /\ Up
    BY <1>0, <1>5 DEF runner, table, pass
  <2>2. RunnerSteps => Further
    BY <1>1, <1>2 DEF RunnerSteps
  <2> QED BY <2>1, <2>2
<1>6. CASE UNCHANGED vars
  BY <1>5, <1>6 DEF vars, runner
<1>7. CASE \/ Arrives \/ MovedIn \/ Renumbers \/ RowStored \/ FlagsScan
           \/ FallsBack \/ FullScan \/ BatchStored \/ SyncEnds \/ SyncFails
  <2>1. UNCHANGED runner
    BY <1>7 DEF Arrives, MovedIn, Renumbers, RowStored, FlagsScan, FallsBack,
                FullScan, BatchStored, SyncEnds, SyncFails
  <2> QED BY <2>1, <1>5
<1> QED BY <1>1, <1>2, <1>3, <1>4, <1>6, <1>7 DEF Next

\* The watermark goes back only on a renumbering, for every bound.
THEOREM TheMarkGoesUp == Spec => MarkGoesUp
<1>1. Inv /\ [Next]_vars =>
        [mark <= mark' \/ (Bumped /\ mark' = GetMaxUidForFolder)]_vars
  BY StepsMoveOn
<1> QED BY <1>1, AlwaysInv, PTL DEF Spec, MarkGoesUp

\* Every await of a call takes it further, for every bound.
THEOREM CallsAreBounded == Spec => [](round \in 1..MaxRounds) /\ CallsMoveOn
<1>1. Inv => round \in 1..MaxRounds
  BY DEF Inv, TypeOK
<1>2. Inv /\ [Next]_vars =>
        [/\ RunnerSteps => Further
         /\ pc # "free" => Further \/ UNCHANGED <<pc, round, uid, left>>]_vars
  BY StepsMoveOn
<1> QED BY <1>1, <1>2, AlwaysInv, PTL DEF Spec, CallsMoveOn
=============================================================================
