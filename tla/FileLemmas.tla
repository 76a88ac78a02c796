----------------------------- MODULE FileLemmas -----------------------------
(***************************************************************************)
(* Facts about a file that is a sequence of records, for records of every  *)
(* kind: the first position a scan finds, an append, an update in place.   *)
(***************************************************************************)
EXTENDS Integers, SequencesExt, SequenceTheorems, FiniteSetTheorems,
        WellFoundedInduction, TLAPS

-----------------------------------------------------------------------------
(* A set of positions that is not empty has a first one. *)
LEMMA MinNat ==
  ASSUME NEW I \in SUBSET Nat, I # {}
  PROVE  /\ Min(I) \in I
         /\ \A y \in I : Min(I) <= y
<1> DEFINE T == {0..x : x \in I}
<1>1. T \subseteq FiniteSubsetsOf(Nat)
  <2>1. \A x \in I : IsFiniteSet(0..x) /\ 0..x \subseteq Nat
    BY FS_Interval
  <2>2. QED BY <2>1 DEF FiniteSubsetsOf
<1>2. PICK s \in T : \A r \in T : <<r, s>> \notin StrictSubsetOrdering(Nat)
  <2>1. T # {} OBVIOUS
  <2> HIDE DEF T
  <2>2. QED BY <1>1, <2>1, FS_StrictSubsetOrderingWellFounded, WFMin
<1>3. PICK x \in I : s = 0..x
  OBVIOUS
<1>4. \A y \in I : x <= y
  <2>1. SUFFICES ASSUME NEW y \in I, y < x PROVE FALSE
    OBVIOUS
  <2>2. 0..y \subseteq 0..x /\ 0..y # 0..x
    BY <2>1
  <2>3. <<0..y, 0..x>> \in StrictSubsetOrdering(Nat)
    BY <2>2 DEF StrictSubsetOrdering
  <2>4. QED BY <2>3, <1>2, <1>3
<1>5. QED
  BY <1>4 DEF Min

-----------------------------------------------------------------------------
(* Writing a record back keeps the file a sequence of records of the same  *)
(* length, wherever the position lies.                                     *)
LEMMA UpdateInPlace ==
  ASSUME NEW R, NEW file \in Seq(R), NEW new, DOMAIN new = DOMAIN file,
         new = [i \in DOMAIN new |-> new[i]],
         \A i \in DOMAIN file : new[i] \in R
  PROVE  new \in Seq(R) /\ Len(new) = Len(file)
<1>1. DOMAIN file = 1..Len(file) /\ Len(file) \in Nat
  OBVIOUS
<1>2. new \in [1..Len(file) -> R]
  BY <1>1
<1>3. new \in Seq(R)
  BY <1>1, <1>2, SeqDef
<1>4. QED BY <1>1, <1>2, <1>3

(* A file with the same positions has the same length. *)
LEMMA SameLength ==
  ASSUME NEW R, NEW s \in Seq(R), NEW t \in Seq(R), DOMAIN s = DOMAIN t
  PROVE  Len(s) = Len(t)
<1>1. /\ Len(s) \in Nat /\ Len(t) \in Nat
      /\ DOMAIN s = 1..Len(s) /\ DOMAIN t = 1..Len(t)
  OBVIOUS
<1>2. ~(Len(s) < Len(t)) /\ ~(Len(t) < Len(s))
  <2>1. Len(s) < Len(t) => Len(t) \in 1..Len(t) /\ Len(t) \notin 1..Len(s)
    BY <1>1
  <2>2. Len(t) < Len(s) => Len(s) \in 1..Len(s) /\ Len(s) \notin 1..Len(t)
    BY <1>1
  <2>3. 1..Len(s) = 1..Len(t)
    BY <1>1
  <2>4. QED BY <2>1, <2>2, <2>3
<1>3. PICK a \in Nat, b \in Nat : a = Len(s) /\ b = Len(t)
  BY <1>1
<1>4. ~(a < b) /\ ~(b < a)
  BY <1>2, <1>3
<1>5. a = b
  BY <1>4
<1>6. QED BY <1>3, <1>5
=============================================================================
