---------------------------- MODULE LogTextProofs ----------------------------
(***************************************************************************)
(* What holds of the names of log files and of the lines of a log for      *)
(* every name, format, list of arguments and level.                        *)
(***************************************************************************)
EXTENDS LogText, FiniteSetTheorems, WellFoundedInduction, TLAPS

(* Induction, for a set: the theorem of the library is about an operator.  *)
LEMMA Induction ==
  ASSUME NEW S, 0 \in S, \A n \in Nat : n \in S => n + 1 \in S
  PROVE  Nat \subseteq S
<1>. DEFINE T == Nat \ S
            R == {ss \in Nat \X Nat : ss[1] < ss[2]}
<1>. SUFFICES ASSUME T # {} PROVE FALSE
  OBVIOUS
<1>1. IsWellFoundedOn(R, Nat)
  BY NatLessThanWellFounded DEF OpToRel
<1>2. PICK x \in T : \A y \in T : ~ (<<y, x>> \in R)
  <2>1. T \subseteq Nat
     BY DEF T
  <2>. HIDE DEF T, R
  <2>. QED
    BY <1>1, <2>1, WFMin
<1>3. \A y \in T : ~ (y < x)
  BY <1>2
<1>4. x # 0 /\ x - 1 \in Nat
  OBVIOUS
<1>5. x - 1 \in S
  BY <1>3, <1>4
<1>. QED
  BY <1>4, <1>5

-----------------------------------------------------------------------------
(* Names of files *)

(* Ups and Downs of any sequence.                                          *)
Climbs(n, i, j) == Cardinality({k \in i..j : n[k] = ".."})
Enters(n, i, j) == Cardinality({k \in i..j : n[k] \in Parts})

(* The parts among the first p that no ".." among them takes back.         *)
Kept(n, p) ==
  {i \in 1..p : /\ n[i] \in Parts
                /\ \A j \in (i + 1)..p : Climbs(n, i + 1, j) <= Enters(n, i + 1, j)}

(* The first p parts of n never climb above the root, and u is what they   *)
(* leave: the n-th of u is the n-th kept, and it is as deep as that.       *)
Leaves(n, p, u) ==
  /\ \A j \in 1..p : Climbs(n, 1, j) <= Enters(n, 1, j)
  /\ Enters(n, 1, p) - Climbs(n, 1, p) = Len(u)
  /\ \E pos \in [1..Len(u) -> 1..p] :
       /\ \A a, b \in 1..Len(u) : a < b => pos[a] < pos[b]
       /\ \A i \in 1..p : i \in Kept(n, p) <=> \E a \in 1..Len(u) : pos[a] = i
       /\ \A a \in 1..Len(u) :
            /\ u[a] = n[pos[a]]
            /\ Enters(n, pos[a] + 1, p) - Climbs(n, pos[a] + 1, p) = Len(u) - a

PathParts == Parts \cup {"", ".", ".."}

PathInv ==
  /\ name \in Seq(PathParts)
  /\ part \in 1..(Len(name) + 1)
  /\ use \in Seq(Parts)
  /\ fault \in BOOLEAN
  /\ ~fault => Leaves(name, part - 1, use)
  /\ fault => \E j \in DOMAIN name : Climbs(name, 1, j) > Enters(name, 1, j)

LEMMA CountType ==
  ASSUME NEW n, NEW i \in Nat, NEW j \in Nat
  PROVE  Climbs(n, i, j) \in Nat /\ Enters(n, i, j) \in Nat
<1>1. IsFiniteSet(i..j)
  BY FS_Interval
<1>2. IsFiniteSet({k \in i..j : n[k] = ".."}) /\ IsFiniteSet({k \in i..j : n[k] \in Parts})
  BY <1>1, FS_Subset
<1>. QED
  BY <1>2, FS_CardinalityType DEF Climbs, Enters

LEMMA CountNone ==
  ASSUME NEW n, NEW i \in Nat
  PROVE  Climbs(n, i + 1, i) = 0 /\ Enters(n, i + 1, i) = 0
<1>1. {k \in (i + 1)..i : n[k] = ".."} = {} /\ {k \in (i + 1)..i : n[k] \in Parts} = {}
  OBVIOUS
<1>. QED
  BY <1>1, FS_EmptySet DEF Climbs, Enters

(* What one more part adds to the counts.                                  *)
LEMMA CountMore ==
  ASSUME NEW n, NEW i \in Nat, NEW j \in Nat, i <= j + 1
  PROVE  /\ Climbs(n, i, j + 1) = Climbs(n, i, j) + (IF n[j + 1] = ".." THEN 1 ELSE 0)
         /\ Enters(n, i, j + 1) = Enters(n, i, j) + (IF n[j + 1] \in Parts THEN 1 ELSE 0)
<1>1. IsFiniteSet(i..j)
  BY FS_Interval
<1>2. Climbs(n, i, j + 1) = Climbs(n, i, j) + (IF n[j + 1] = ".." THEN 1 ELSE 0)
  <2>. DEFINE C == {k \in i..j : n[k] = ".."}
              D == {k \in i..(j + 1) : n[k] = ".."}
  <2>1. IsFiniteSet(C) /\ j + 1 \notin C
    BY <1>1, FS_Subset
  <2>2. D = IF n[j + 1] = ".." THEN C \cup {j + 1} ELSE C
    OBVIOUS
  <2>3. Cardinality(C \cup {j + 1}) = Cardinality(C) + 1 /\ Cardinality(C) \in Nat
    <3>. HIDE DEF C
    <3>. QED
      BY <2>1, FS_AddElement, FS_CardinalityType
  <2>. QED
    BY <2>2, <2>3 DEF Climbs
<1>3. Enters(n, i, j + 1) = Enters(n, i, j) + (IF n[j + 1] \in Parts THEN 1 ELSE 0)
  <2>. DEFINE C == {k \in i..j : n[k] \in Parts}
              D == {k \in i..(j + 1) : n[k] \in Parts}
  <2>1. IsFiniteSet(C) /\ j + 1 \notin C
    BY <1>1, FS_Subset
  <2>2. D = IF n[j + 1] \in Parts THEN C \cup {j + 1} ELSE C
    OBVIOUS
  <2>3. Cardinality(C \cup {j + 1}) = Cardinality(C) + 1 /\ Cardinality(C) \in Nat
    <3>. HIDE DEF C
    <3>. QED
      BY <2>1, FS_AddElement, FS_CardinalityType
  <2>. QED
    BY <2>2, <2>3 DEF Enters
<1>. QED
  BY <1>2, <1>3

(* Among the first p + 1 parts a part is kept that was kept among the      *)
(* first p and has not been taken back by the last, or that is the last.   *)
LEMMA KeptMore ==
  ASSUME NEW n, NEW p \in Nat, NEW i \in 1..(p + 1)
  PROVE  i \in Kept(n, p + 1) <=>
           \/ i = p + 1 /\ n[i] \in Parts
           \/ i \in Kept(n, p) /\ Climbs(n, i + 1, p + 1) <= Enters(n, i + 1, p + 1)
<1>1. CASE i = p + 1
  BY <1>1 DEF Kept
<1>2. CASE i < p + 1
  BY <1>2 DEF Kept
<1>. QED
  BY <1>1, <1>2

-----------------------------------------------------------------------------
LEMMA NothingLeft == ASSUME NEW n, NEW u, Len(u) = 0 PROVE Leaves(n, 0, u)
<1>1. Climbs(n, 1, 0) = 0 /\ Enters(n, 1, 0) = 0
  BY CountNone
<1>2. [a \in 1..0 |-> 1] \in [1..Len(u) -> 1..0]
  OBVIOUS
<1>3. PICK pos : pos \in [1..Len(u) -> 1..0]
  BY <1>2
<1>4. /\ \A a, b \in 1..Len(u) : a < b => pos[a] < pos[b]
      /\ \A i \in 1..0 : i \in Kept(n, 0) <=> \E a \in 1..Len(u) : pos[a] = i
      /\ \A a \in 1..Len(u) :
           /\ u[a] = n[pos[a]]
           /\ Enters(n, pos[a] + 1, 0) - Climbs(n, pos[a] + 1, 0) = Len(u) - a
  OBVIOUS
<1>5. \A j \in 1..0 : Climbs(n, 1, j) <= Enters(n, 1, j)
  OBVIOUS
<1>6. Enters(n, 1, 0) - Climbs(n, 1, 0) = Len(u)
  BY <1>1
<1>. QED
  BY <1>3, <1>4, <1>5, <1>6, Zenon DEF Leaves

LEMMA SkipLeaves ==
  ASSUME NEW n, NEW p \in Nat, NEW u \in Seq(Parts), Leaves(n, p, u),
         n[p + 1] \notin Parts, n[p + 1] # ".."
  PROVE  Leaves(n, p + 1, u)
<1>0. Len(u) \in Nat
  OBVIOUS
<1>2. ASSUME NEW i \in Nat, i <= p + 1
      PROVE  /\ Climbs(n, i, p + 1) = Climbs(n, i, p) /\ Enters(n, i, p + 1) = Enters(n, i, p)
             /\ Climbs(n, i, p) \in Nat /\ Enters(n, i, p) \in Nat
  <2>1. Climbs(n, i, p) \in Nat /\ Enters(n, i, p) \in Nat
    BY CountType
  <2>2. /\ Climbs(n, i, p + 1) = Climbs(n, i, p) + (IF n[p + 1] = ".." THEN 1 ELSE 0)
        /\ Enters(n, i, p + 1) = Enters(n, i, p) + (IF n[p + 1] \in Parts THEN 1 ELSE 0)
    BY <1>2, CountMore
  <2>. QED
    BY <2>1, <2>2
<1>3. \A j \in 1..(p + 1) : Climbs(n, 1, j) <= Enters(n, 1, j)
  <2>1. p = 0 => Climbs(n, 1, p) = 0 /\ Enters(n, 1, p) = 0
    BY CountNone, 0 + 1 = 1
  <2>2. Climbs(n, 1, p) <= Enters(n, 1, p)
    BY <2>1 DEF Leaves
  <2>3. Climbs(n, 1, p + 1) <= Enters(n, 1, p + 1)
    BY <1>2, <2>2, 1 \in Nat, 1 <= p + 1
  <2>. QED
    BY <2>3 DEF Leaves
<1>4. Enters(n, 1, p + 1) - Climbs(n, 1, p + 1) = Len(u)
  BY <1>2, 1 \in Nat DEF Leaves
<1>5. PICK pos \in [1..Len(u) -> 1..p] :
        /\ \A a, b \in 1..Len(u) : a < b => pos[a] < pos[b]
        /\ \A i \in 1..p : i \in Kept(n, p) <=> \E a \in 1..Len(u) : pos[a] = i
        /\ \A a \in 1..Len(u) :
             /\ u[a] = n[pos[a]]
             /\ Enters(n, pos[a] + 1, p) - Climbs(n, pos[a] + 1, p) = Len(u) - a
  BY DEF Leaves
<1>6. \A a \in 1..Len(u) : pos[a] \in 1..p /\ pos[a] + 1 \in Nat /\ pos[a] + 1 <= p + 1
  <2>1. \A a \in 1..Len(u) : pos[a] \in 1..p
    BY <1>5, Zenon
  <2>. QED
    BY <2>1
<1>7. \A a \in 1..Len(u) : Enters(n, pos[a] + 1, p + 1) - Climbs(n, pos[a] + 1, p + 1) = Len(u) - a
  BY <1>2, <1>5, <1>6
<1>8. ASSUME NEW i \in 1..(p + 1)
      PROVE  i \in Kept(n, p + 1) <=> \E a \in 1..Len(u) : pos[a] = i
  <2>1. CASE i = p + 1
    BY <1>0, <1>6, <2>1, KeptMore DEF Kept
  <2>2. CASE i \in 1..p
    <3>1. i \in Kept(n, p) => \E a \in 1..Len(u) : pos[a] = i
      BY <1>5, <2>2
    <3>2. i \in Kept(n, p) => Climbs(n, i + 1, p + 1) <= Enters(n, i + 1, p + 1)
      <4>. SUFFICES ASSUME NEW a \in 1..Len(u), pos[a] = i
                    PROVE  Climbs(n, i + 1, p + 1) <= Enters(n, i + 1, p + 1)
        BY <3>1
      <4>. QED
        <5>1. a \in Nat /\ a <= Len(u) /\ i + 1 \in Nat /\ i + 1 <= p + 1
          BY <1>0, <1>6
        <5>2. Climbs(n, i + 1, p + 1) \in Nat /\ Enters(n, i + 1, p + 1) \in Nat
          BY <1>2, <5>1
        <5>3. Enters(n, i + 1, p + 1) - Climbs(n, i + 1, p + 1) = Len(u) - a
          BY <1>7
        <5>. QED
          BY <1>0, <5>1, <5>2, <5>3
    <3>. QED
      BY <1>0, <1>5, <2>2, <3>2, KeptMore
  <2>. QED
    BY <2>1, <2>2
<1>9. pos \in [1..Len(u) -> 1..(p + 1)]
  BY <1>0, <1>5
<1>. QED
  BY <1>3, <1>4, <1>5, <1>7, <1>8, <1>9 DEF Leaves

LEMMA KeepLeaves ==
  ASSUME NEW n, NEW p \in Nat, NEW u \in Seq(Parts), Leaves(n, p, u), n[p + 1] \in Parts
  PROVE  Leaves(n, p + 1, Append(u, n[p + 1]))
<1>. DEFINE v == Append(u, n[p + 1])
<1>0. /\ Len(u) \in Nat /\ Len(v) = Len(u) + 1
      /\ \A a \in 1..Len(u) : v[a] = u[a]
      /\ v[Len(u) + 1] = n[p + 1]
  OBVIOUS
<1>. HIDE DEF v
<1>1. n[p + 1] # ".."
  BY LogPathsAssumption, Zenon
<1>2. ASSUME NEW i \in Nat, i <= p + 1
      PROVE  /\ Climbs(n, i, p + 1) = Climbs(n, i, p) /\ Enters(n, i, p + 1) = Enters(n, i, p) + 1
             /\ Climbs(n, i, p) \in Nat /\ Enters(n, i, p) \in Nat
  <2>1. Climbs(n, i, p) \in Nat /\ Enters(n, i, p) \in Nat
    BY CountType
  <2>2. /\ Climbs(n, i, p + 1) = Climbs(n, i, p) + (IF n[p + 1] = ".." THEN 1 ELSE 0)
        /\ Enters(n, i, p + 1) = Enters(n, i, p) + (IF n[p + 1] \in Parts THEN 1 ELSE 0)
    BY <1>2, CountMore
  <2>. QED
    BY <1>1, <2>1, <2>2
<1>3. \A j \in 1..(p + 1) : Climbs(n, 1, j) <= Enters(n, 1, j)
  <2>1. p = 0 => Climbs(n, 1, p) = 0 /\ Enters(n, 1, p) = 0
    BY CountNone, 0 + 1 = 1
  <2>2. Climbs(n, 1, p) <= Enters(n, 1, p)
    BY <2>1 DEF Leaves
  <2>3. Climbs(n, 1, p + 1) <= Enters(n, 1, p + 1)
    BY <1>2, <2>2, 1 \in Nat, 1 <= p + 1
  <2>. QED
    BY <2>3 DEF Leaves
<1>4. Enters(n, 1, p + 1) - Climbs(n, 1, p + 1) = Len(v)
  <2>1. /\ Climbs(n, 1, p + 1) = Climbs(n, 1, p) /\ Enters(n, 1, p + 1) = Enters(n, 1, p) + 1
        /\ Climbs(n, 1, p) \in Nat /\ Enters(n, 1, p) \in Nat
    BY <1>2, 1 \in Nat, 1 <= p + 1
  <2>2. Enters(n, 1, p) - Climbs(n, 1, p) = Len(u)
    BY DEF Leaves
  <2>. QED
    BY <1>0, <2>1, <2>2
<1>5. PICK pos \in [1..Len(u) -> 1..p] :
        /\ \A a, b \in 1..Len(u) : a < b => pos[a] < pos[b]
        /\ \A i \in 1..p : i \in Kept(n, p) <=> \E a \in 1..Len(u) : pos[a] = i
        /\ \A a \in 1..Len(u) :
             /\ u[a] = n[pos[a]]
             /\ Enters(n, pos[a] + 1, p) - Climbs(n, pos[a] + 1, p) = Len(u) - a
  BY DEF Leaves
<1>. DEFINE new == [a \in 1..(Len(u) + 1) |-> IF a = Len(u) + 1 THEN p + 1 ELSE pos[a]]
<1>6. \A a \in 1..Len(u) : pos[a] \in 1..p /\ pos[a] + 1 \in Nat /\ pos[a] + 1 <= p + 1
  <2>1. \A a \in 1..Len(u) : pos[a] \in 1..p
    BY <1>5, Zenon
  <2>. QED
    BY <2>1
<1>7. /\ new \in [1..Len(v) -> 1..(p + 1)]
      /\ new[Len(u) + 1] = p + 1
      /\ \A a \in 1..Len(u) : new[a] = pos[a]
  BY <1>0, <1>6
<1>. HIDE DEF new
<1>8. \A a, b \in 1..Len(v) : a < b => new[a] < new[b]
  <2>. SUFFICES ASSUME NEW a \in 1..Len(v), NEW b \in 1..Len(v), a < b PROVE new[a] < new[b]
    OBVIOUS
  <2>1. a \in 1..Len(u) /\ new[a] = pos[a] /\ pos[a] \in 1..p
    BY <1>0, <1>6, <1>7
  <2>2. CASE b = Len(u) + 1
    BY <1>7, <2>1, <2>2
  <2>3. CASE b \in 1..Len(u)
    BY <1>5, <1>7, <2>1, <2>3
  <2>. QED
    BY <1>0, <2>2, <2>3, b = Len(u) + 1 \/ b \in 1..Len(u)
<1>9. ASSUME NEW i \in 1..(p + 1)
      PROVE  i \in Kept(n, p + 1) <=> \E a \in 1..Len(v) : new[a] = i
  <2>1. CASE i = p + 1
    <3>1. new[Len(u) + 1] = i /\ Len(u) + 1 \in 1..Len(v)
      BY <1>0, <1>7, <2>1
    <3>. QED
      BY <2>1, <3>1, KeptMore
  <2>2. CASE i \in 1..p
    <3>1. i \in Kept(n, p) <=> \E a \in 1..Len(u) : pos[a] = i
      BY <1>5, <2>2
    <3>2. (\E a \in 1..Len(u) : pos[a] = i) <=> \E a \in 1..Len(v) : new[a] = i
      <4>1. ASSUME NEW a \in 1..Len(v), new[a] = i PROVE a \in 1..Len(u) /\ pos[a] = i
        <5>1. a # Len(u) + 1
          BY <1>7, <2>2, <4>1
        <5>. QED
          BY <1>0, <1>7, <4>1, <5>1
      <4>2. \A a \in 1..Len(u) : a \in 1..Len(v) /\ new[a] = pos[a]
        BY <1>0, <1>7
      <4>. QED
        BY <4>1, <4>2
    <3>3. i \in Kept(n, p) => Climbs(n, i + 1, p + 1) <= Enters(n, i + 1, p + 1)
      <4>. SUFFICES ASSUME NEW a \in 1..Len(u), pos[a] = i
                    PROVE  Climbs(n, i + 1, p + 1) <= Enters(n, i + 1, p + 1)
        BY <3>1
      <4>1. a \in Nat /\ a <= Len(u) /\ i + 1 \in Nat /\ i + 1 <= p + 1
        BY <1>0, <1>6
      <4>2. Enters(n, i + 1, p) - Climbs(n, i + 1, p) = Len(u) - a
        BY <1>5
      <4>3. /\ Climbs(n, i + 1, p + 1) = Climbs(n, i + 1, p)
            /\ Enters(n, i + 1, p + 1) = Enters(n, i + 1, p) + 1
            /\ Climbs(n, i + 1, p) \in Nat /\ Enters(n, i + 1, p) \in Nat
        BY <1>2, <4>1
      <4>. QED
        BY <1>0, <4>1, <4>2, <4>3
    <3>. QED
      BY <2>2, <3>1, <3>2, <3>3, KeptMore
  <2>. QED
    BY <2>1, <2>2
<1>10. ASSUME NEW a \in 1..Len(v)
       PROVE  /\ v[a] = n[new[a]]
              /\ Enters(n, new[a] + 1, p + 1) - Climbs(n, new[a] + 1, p + 1) = Len(v) - a
  <2>1. CASE a = Len(u) + 1
    <3>1. Climbs(n, p + 1 + 1, p + 1) = 0 /\ Enters(n, p + 1 + 1, p + 1) = 0
      BY CountNone, p + 1 \in Nat
    <3>. QED
      BY <1>0, <1>7, <2>1, <3>1
  <2>2. CASE a \in 1..Len(u)
    <3>1. /\ new[a] = pos[a] /\ v[a] = u[a] /\ u[a] = n[pos[a]]
          /\ Enters(n, pos[a] + 1, p) - Climbs(n, pos[a] + 1, p) = Len(u) - a
      BY <1>0, <1>5, <1>7, <2>2
    <3>2. /\ Climbs(n, pos[a] + 1, p + 1) = Climbs(n, pos[a] + 1, p)
          /\ Enters(n, pos[a] + 1, p + 1) = Enters(n, pos[a] + 1, p) + 1
          /\ Climbs(n, pos[a] + 1, p) \in Nat /\ Enters(n, pos[a] + 1, p) \in Nat
      BY <1>2, <1>6, <2>2
    <3>. QED
      BY <1>0, <2>2, <3>1, <3>2
  <2>. QED
    BY <1>0, <2>1, <2>2
<1>. QED
  BY <1>3, <1>4, <1>7, <1>8, <1>9, <1>10 DEF Leaves, v

(* A ".." takes back the last part kept.                                   *)
LEMMA UpLeaves ==
  ASSUME NEW n, NEW p \in Nat, NEW u \in Seq(Parts), Leaves(n, p, u), u # <<>>,
         n[p + 1] = "..", NEW v, Len(v) = Len(u) - 1, \A a \in 1..Len(v) : v[a] = u[a]
  PROVE  Leaves(n, p + 1, v)
<1>0. Len(u) \in Nat /\ Len(u) >= 1 /\ Len(v) \in Nat
  OBVIOUS
<1>1. n[p + 1] \notin Parts
  BY LogPathsAssumption, Zenon
<1>2. ASSUME NEW i \in Nat, i <= p + 1
      PROVE  /\ Climbs(n, i, p + 1) = Climbs(n, i, p) + 1 /\ Enters(n, i, p + 1) = Enters(n, i, p)
             /\ Climbs(n, i, p) \in Nat /\ Enters(n, i, p) \in Nat
  <2>1. Climbs(n, i, p) \in Nat /\ Enters(n, i, p) \in Nat
    BY CountType
  <2>2. /\ Climbs(n, i, p + 1) = Climbs(n, i, p) + (IF n[p + 1] = ".." THEN 1 ELSE 0)
        /\ Enters(n, i, p + 1) = Enters(n, i, p) + (IF n[p + 1] \in Parts THEN 1 ELSE 0)
    BY <1>2, CountMore
  <2>. QED
    BY <1>1, <2>1, <2>2
<1>4. Enters(n, 1, p + 1) - Climbs(n, 1, p + 1) = Len(v)
  <2>1. /\ Climbs(n, 1, p + 1) = Climbs(n, 1, p) + 1 /\ Enters(n, 1, p + 1) = Enters(n, 1, p)
        /\ Climbs(n, 1, p) \in Nat /\ Enters(n, 1, p) \in Nat
    BY <1>2, 1 \in Nat, 1 <= p + 1
  <2>2. Enters(n, 1, p) - Climbs(n, 1, p) = Len(u)
    BY DEF Leaves
  <2>. QED
    BY <1>0, <2>1, <2>2
<1>3. \A j \in 1..(p + 1) : Climbs(n, 1, j) <= Enters(n, 1, j)
  <2>1. Climbs(n, 1, p + 1) \in Nat /\ Enters(n, 1, p + 1) \in Nat
    BY CountType
  <2>2. Climbs(n, 1, p + 1) <= Enters(n, 1, p + 1)
    BY <1>0, <1>4, <2>1
  <2>. QED
    BY <2>2 DEF Leaves
<1>5. PICK pos \in [1..Len(u) -> 1..p] :
        /\ \A a, b \in 1..Len(u) : a < b => pos[a] < pos[b]
        /\ \A i \in 1..p : i \in Kept(n, p) <=> \E a \in 1..Len(u) : pos[a] = i
        /\ \A a \in 1..Len(u) :
             /\ u[a] = n[pos[a]]
             /\ Enters(n, pos[a] + 1, p) - Climbs(n, pos[a] + 1, p) = Len(u) - a
  BY DEF Leaves
<1>. DEFINE new == [a \in 1..Len(v) |-> pos[a]]
<1>6. \A a \in 1..Len(u) : pos[a] \in 1..p /\ pos[a] + 1 \in Nat /\ pos[a] + 1 <= p + 1
  <2>1. \A a \in 1..Len(u) : pos[a] \in 1..p
    BY <1>5, Zenon
  <2>. QED
    BY <2>1
<1>7. /\ new \in [1..Len(v) -> 1..(p + 1)]
      /\ \A a \in 1..Len(v) : new[a] = pos[a] /\ a \in 1..Len(u)
  BY <1>0, <1>6
<1>. HIDE DEF new
<1>8. \A a, b \in 1..Len(v) : a < b => new[a] < new[b]
  BY <1>5, <1>7
<1>9. ASSUME NEW a \in 1..Len(u)
      PROVE  Enters(n, pos[a] + 1, p + 1) - Climbs(n, pos[a] + 1, p + 1) = Len(v) - a
  <2>1. Enters(n, pos[a] + 1, p) - Climbs(n, pos[a] + 1, p) = Len(u) - a
    BY <1>5
  <2>2. /\ Climbs(n, pos[a] + 1, p + 1) = Climbs(n, pos[a] + 1, p) + 1
        /\ Enters(n, pos[a] + 1, p + 1) = Enters(n, pos[a] + 1, p)
        /\ Climbs(n, pos[a] + 1, p) \in Nat /\ Enters(n, pos[a] + 1, p) \in Nat
    BY <1>2, <1>6
  <2>. QED
    BY <1>0, <2>1, <2>2
<1>10. ASSUME NEW i \in 1..(p + 1)
       PROVE  i \in Kept(n, p + 1) <=> \E a \in 1..Len(v) : new[a] = i
  <2>1. CASE i = p + 1
    <3>1. i \notin Kept(n, p)
      BY <2>1 DEF Kept
    <3>2. \A a \in 1..Len(v) : new[a] # i
      BY <1>6, <1>7, <2>1
    <3>. QED
      BY <1>1, <2>1, <3>1, <3>2, KeptMore
  <2>2. CASE i \in 1..p
    <3>1. i \in Kept(n, p) <=> \E a \in 1..Len(u) : pos[a] = i
      BY <1>5, <2>2
    <3>2. ASSUME NEW a \in 1..Len(u), pos[a] = i
          PROVE  Climbs(n, i + 1, p + 1) <= Enters(n, i + 1, p + 1) <=> a <= Len(v)
      <4>1. Climbs(n, i + 1, p + 1) \in Nat /\ Enters(n, i + 1, p + 1) \in Nat
        BY CountType
      <4>. QED
        BY <1>0, <1>9, <3>2, <4>1
    <3>3. (\E a \in 1..Len(v) : new[a] = i) <=> \E a \in 1..Len(u) : pos[a] = i /\ a <= Len(v)
      BY <1>0, <1>7
    <3>. QED
      BY <2>2, <3>1, <3>2, <3>3, KeptMore
  <2>. QED
    BY <2>1, <2>2
<1>11. \A a \in 1..Len(v) :
         /\ v[a] = n[new[a]]
         /\ Enters(n, new[a] + 1, p + 1) - Climbs(n, new[a] + 1, p + 1) = Len(v) - a
  BY <1>5, <1>7, <1>9
<1>. QED
  BY <1>3, <1>4, <1>7, <1>8, <1>10, <1>11 DEF Leaves

(* With nothing kept, a ".." climbs above the root.                        *)
LEMMA UpTooFar ==
  ASSUME NEW n, NEW p \in Nat, NEW u, Leaves(n, p, u), Len(u) = 0, n[p + 1] = ".."
  PROVE  Climbs(n, 1, p + 1) > Enters(n, 1, p + 1)
<1>1. n[p + 1] \notin Parts
  BY LogPathsAssumption, Zenon
<1>2. Climbs(n, 1, p) \in Nat /\ Enters(n, 1, p) \in Nat
  BY CountType
<1>3. /\ Climbs(n, 1, p + 1) = Climbs(n, 1, p) + (IF n[p + 1] = ".." THEN 1 ELSE 0)
      /\ Enters(n, 1, p + 1) = Enters(n, 1, p) + (IF n[p + 1] \in Parts THEN 1 ELSE 0)
  BY CountMore
<1>4. Enters(n, 1, p) - Climbs(n, 1, p) = 0
  BY DEF Leaves
<1>. QED
  BY <1>1, <1>2, <1>3, <1>4

-----------------------------------------------------------------------------
(* What the loop over the parts keeps.                                     *)

LEMMA SeqMore ==
  ASSUME NEW S, NEW T, S \subseteq T, NEW s \in Seq(S)
  PROVE  s \in Seq(T)
<1>1. Len(s) \in Nat /\ s \in [1..Len(s) -> S]
  OBVIOUS
<1>2. s \in [1..Len(s) -> T]
  BY <1>1
<1>. QED
  BY <1>1, <1>2

LEMMA FrontIs ==
  ASSUME NEW S, NEW s \in Seq(S), s # <<>>
  PROVE  /\ Front(s) \in Seq(S) /\ Len(Front(s)) = Len(s) - 1
         /\ \A a \in 1..(Len(s) - 1) : Front(s)[a] = s[a]
<1>1. Len(s) \in Nat /\ Len(s) >= 1
  OBVIOUS
<1>2. Front(s) = [a \in 1..(Len(s) - 1) |-> s[a]]
  BY <1>1 DEF Front
<1>3. [a \in 1..(Len(s) - 1) |-> s[a]] \in Seq(S)
  BY <1>1
<1>. QED
  BY <1>1, <1>2, <1>3

LEMMA BoundedIsSeq ==
  ASSUME NEW S, NEW m \in Nat
  PROVE  BoundedSeq(S, m) \subseteq Seq(S)
  BY DEF BoundedSeq, SeqOf

LEMMA PathPartsFacts ==
  /\ Parts \subseteq PathParts /\ Parts \cup {""} \subseteq PathParts
  /\ Parts \cup {"", ".", ".."} = PathParts
  BY Zenon DEF PathParts

LEMMA NoPathInv == NoPath => PathInv
<1>. SUFFICES ASSUME NoPath PROVE PathInv
  OBVIOUS
<1>1. name = <<>> /\ part = 1 /\ use = <<>> /\ fault = FALSE
  BY Zenon DEF NoPath
<1>2. <<>> \in Seq(PathParts) /\ <<>> \in Seq(Parts) /\ Len(<<>>) = 0
  OBVIOUS
<1>3. Leaves(name, part - 1, use)
  BY <1>1, <1>2, NothingLeft
<1>4. part \in 1..(Len(name) + 1)
  BY <1>1, <1>2
<1>. QED
  BY <1>1, <1>2, <1>3, <1>4, Zenon DEF PathInv

LEMMA PathInitInv == PathInit => PathInv
<1>. SUFFICES ASSUME PathInit PROVE PathInv
  OBVIOUS
<1>1. part = 1 /\ use = <<>> /\ fault = FALSE
  BY Zenon DEF PathInit
<1>2. PICK n \in BoundedSeq(PathParts, MaxParts) : name = n \/ name = Cwd \o n
  BY PathPartsFacts, Zenon DEF PathInit
<1>3. MaxParts \in Nat /\ Cwd \in Seq(Parts \cup {""})
  BY LogPathsAssumption, Zenon
<1>4. n \in Seq(PathParts)
  BY <1>2, <1>3, BoundedIsSeq
<1>5. Cwd \in Seq(PathParts)
  BY <1>3, PathPartsFacts, SeqMore, Zenon
<1>6. name \in Seq(PathParts)
  <2>1. Cwd \o n \in Seq(PathParts)
    BY <1>4, <1>5
  <2>. QED
    BY <1>2, <1>4, <2>1, Zenon
<1>7. <<>> \in Seq(Parts) /\ Len(<<>>) = 0 /\ Len(name) \in Nat
  BY <1>6
<1>8. Leaves(name, part - 1, use)
  BY <1>1, <1>7, NothingLeft
<1>9. part \in 1..(Len(name) + 1)
  BY <1>1, <1>7
<1>. QED
  BY <1>1, <1>6, <1>7, <1>8, <1>9, Zenon DEF PathInv

LEMMA PathSkips == PathInv /\ Skip => PathInv'
<1>. SUFFICES ASSUME PathInv, Skip PROVE PathInv'
  OBVIOUS
<1>1. /\ ~fault /\ part <= Len(name) /\ part' = part + 1
      /\ name' = name /\ use' = use /\ fault' = fault
      /\ name[part] \notin Parts /\ name[part] # ".."
  BY LogPathsAssumption, Zenon DEF Skip, Looks
<1>2. Leaves(name, part - 1 + 1, use)
  BY <1>1, SkipLeaves DEF PathInv
<1>. QED
  BY <1>1, <1>2 DEF PathInv

LEMMA PathKeeps == PathInv /\ Keep => PathInv'
<1>. SUFFICES ASSUME PathInv, Keep PROVE PathInv'
  OBVIOUS
<1>1. /\ ~fault /\ part <= Len(name) /\ part' = part + 1
      /\ name' = name /\ fault' = fault
      /\ name[part] \in Parts /\ use' = Append(use, name[part])
  BY Zenon DEF Keep, Looks
<1>2. Leaves(name, part - 1 + 1, Append(use, name[part]))
  BY <1>1, KeepLeaves DEF PathInv
<1>. QED
  BY <1>1, <1>2 DEF PathInv

LEMMA PathUps == PathInv /\ Up => PathInv'
<1>. SUFFICES ASSUME PathInv, Up PROVE PathInv'
  OBVIOUS
<1>1. /\ ~fault /\ part <= Len(name) /\ part' = part + 1
      /\ name' = name /\ name[part] = ".."
  BY Zenon DEF Up, Looks
<1>2. CASE use # <<>> /\ use' = Front(use) /\ fault' = fault
  <2>1. use \in Seq(Parts) /\ Len(use) \in Nat /\ Len(use) # 0
    BY <1>2 DEF PathInv
  <2>2. /\ Front(use) \in Seq(Parts) /\ Len(Front(use)) = Len(use) - 1
        /\ \A a \in 1..Len(Front(use)) : Front(use)[a] = use[a]
    BY <1>2, <2>1, FrontIs
  <2>3. Leaves(name, part - 1 + 1, Front(use))
    <3>1. part - 1 \in Nat /\ Leaves(name, part - 1, use) /\ name[part - 1 + 1] = ".."
      BY <1>1 DEF PathInv
    <3>. QED
      BY <1>2, <2>1, <2>2, <3>1, UpLeaves
  <2>. QED
    BY <1>1, <1>2, <2>2, <2>3 DEF PathInv
<1>3. CASE use = <<>> /\ fault' = TRUE /\ use' = use
  <2>1. Len(use) = 0 /\ Len(name) \in Nat
    BY <1>3 DEF PathInv
  <2>2. Climbs(name, 1, part - 1 + 1) > Enters(name, 1, part - 1 + 1)
    BY <1>1, <2>1, UpTooFar DEF PathInv
  <2>. QED
    BY <1>1, <1>3, <2>1, <2>2 DEF PathInv
<1>. QED
  BY <1>2, <1>3, Zenon DEF Up

-----------------------------------------------------------------------------
(* As many of an increasing sequence's values are up to the a-th as a says. *)
UpTo(K, i) == {k \in K : k <= i}

LEMMA Rank ==
  ASSUME NEW m \in Nat, NEW p \in Nat, NEW pos \in [1..m -> 1..p], NEW K,
         \A a, b \in 1..m : a < b => pos[a] < pos[b],
         \A i \in K : \E a \in 1..m : pos[a] = i,
         \A a \in 1..m : pos[a] \in K,
         NEW a \in 1..m
  PROVE  Cardinality(UpTo(K, pos[a])) = a
<1>. DEFINE T == {k \in K : k <= pos[a]}
            f == [b \in 1..a |-> pos[b]]
<1>1. \A b \in 1..m : pos[b] \in Nat
  OBVIOUS
<1>2. \A b \in 1..m : pos[b] <= pos[a] <=> b <= a
  BY <1>1
<1>3. \A b \in 1..a : b \in 1..m /\ f[b] = pos[b] /\ f[b] \in T
  BY <1>2
<1>4. f \in [1..a -> T]
  BY <1>3
<1>5. \A b, c \in 1..a : f[b] = f[c] => b = c
  BY <1>1, <1>3
<1>6. \A k \in T : \E b \in 1..a : f[b] = k
  <2>. SUFFICES ASSUME NEW k \in T PROVE \E b \in 1..a : f[b] = k
    OBVIOUS
  <2>1. PICK b \in 1..m : pos[b] = k
    OBVIOUS
  <2>2. b \in 1..a
    BY <1>2, <2>1
  <2>. QED
    BY <1>3, <2>1, <2>2
<1>. HIDE DEF f, T
<1>7. DOMAIN f = 1..a
  BY <1>4
<1>8. f \in Bijection(1..a, T)
  BY <1>4, <1>5, <1>6, <1>7 DEF Bijection, Injection, Surjection, IsInjective
<1>. QED
  BY <1>8, FS_CountingElements DEF ExistsBijection, T, UpTo

(* At the end, what is left is the normal name.                            *)
LEMMA LeavesNormal ==
  ASSUME name \in Seq(PathParts), use \in Seq(Parts), Leaves(name, Len(name), use)
  PROVE  use = Normal
<1>. DEFINE p == Len(name)
            K == {i \in DOMAIN name : Stays(i)}
            m == Len(use)
<1>0. p \in Nat /\ m \in Nat /\ DOMAIN name = 1..p
  OBVIOUS
<1>1. K = Kept(name, p)
  BY <1>0 DEF Stays, Ups, Downs, Kept, Climbs, Enters
<1>. HIDE DEF K
<1>2. PICK pos \in [1..m -> 1..p] :
        /\ \A a, b \in 1..m : a < b => pos[a] < pos[b]
        /\ \A i \in 1..p : i \in K <=> \E a \in 1..m : pos[a] = i
        /\ \A a \in 1..m : use[a] = name[pos[a]]
  BY <1>1, Zenon DEF Leaves
<1>3. K \subseteq 1..p
  BY <1>1 DEF Kept
<1>4. /\ \A i \in K : \E a \in 1..m : pos[a] = i
      /\ \A a \in 1..m : pos[a] \in K
  BY <1>2, <1>3
<1>5. \A a \in 1..m : Cardinality(UpTo(K, pos[a])) = a
  <2>. SUFFICES ASSUME NEW a \in 1..m PROVE Cardinality(UpTo(K, pos[a])) = a
    OBVIOUS
  <2>1. /\ m \in Nat /\ p \in Nat /\ pos \in [1..m -> 1..p]
        /\ \A b, c \in 1..m : b < c => pos[b] < pos[c]
    BY <1>0, <1>2
  <2>. HIDE DEF m, p
  <2>. QED
    BY <2>1, <1>4, Rank
<1>6. Cardinality(K) = m
  <2>1. CASE m = 0
    <3>1. K = {}
      BY <1>4, <2>1
    <3>. QED
      BY <2>1, <3>1, FS_EmptySet
  <2>2. CASE m > 0
    <3>1. \A b \in 1..m : pos[b] \in Nat /\ pos[b] <= pos[m]
      BY <1>0, <1>2, <2>2
    <3>2. K = UpTo(K, pos[m])
      BY <1>4, <3>1 DEF UpTo
    <3>. QED
      BY <1>0, <1>5, <2>2, <3>2
  <2>. QED
    BY <1>0, <2>1, <2>2
<1>. DEFINE Nth(n) == CHOOSE i \in K : Cardinality(UpTo(K, i)) = n
<1>7. \A n \in 1..m : Nth(n) = pos[n]
  <2>. SUFFICES ASSUME NEW n \in 1..m PROVE Nth(n) = pos[n]
    OBVIOUS
  <2>1. pos[n] \in K /\ Cardinality(UpTo(K, pos[n])) = n
    BY <1>4, <1>5
  <2>2. \A i \in K : Cardinality(UpTo(K, i)) = n => i = pos[n]
    <3>. SUFFICES ASSUME NEW i \in K, Cardinality(UpTo(K, i)) = n PROVE i = pos[n]
      OBVIOUS
    <3>1. PICK a \in 1..m : pos[a] = i
      BY <1>4
    <3>2. a = n
      BY <1>5, <3>1
    <3>. QED
      BY <3>1, <3>2
  <2>. QED
    BY <2>1, <2>2
<1>8. Normal = [n \in 1..m |-> name[Nth(n)]]
  BY <1>6, Zenon DEF Normal, K, UpTo
<1>. HIDE DEF Nth
<1>9. Normal = [n \in 1..m |-> use[n]]
  BY <1>2, <1>7, <1>8
<1>. QED
  BY <1>0, <1>9

LEMMA PathInvMeans == PathInv => PathAsMeant
<1>. SUFFICES ASSUME PathInv PROVE PathAsMeant
  OBVIOUS
<1>0. Len(name) \in Nat /\ DOMAIN name = 1..Len(name)
  BY DEF PathInv
<1>1. \A i, j : Ups(i, j) = Climbs(name, i, j) /\ Downs(i, j) = Enters(name, i, j)
  BY DEF Ups, Downs, Climbs, Enters
<1>2. fault => \E j \in DOMAIN name : Ups(1, j) > Downs(1, j)
  BY <1>1 DEF PathInv
<1>3. ASSUME part > Len(name), ~fault
      PROVE  use = Normal /\ ~ \E j \in DOMAIN name : Ups(1, j) > Downs(1, j)
  <2>1. part - 1 = Len(name)
    BY <1>0, <1>3 DEF PathInv
  <2>2. Leaves(name, Len(name), use)
    BY <1>3, <2>1 DEF PathInv
  <2>3. use = Normal
    BY <2>2, LeavesNormal DEF PathInv
  <2>4. ASSUME NEW j \in 1..Len(name) PROVE ~ (Climbs(name, 1, j) > Enters(name, 1, j))
    <3>1. Climbs(name, 1, j) <= Enters(name, 1, j)
      BY <2>2 DEF Leaves
    <3>2. Climbs(name, 1, j) \in Nat /\ Enters(name, 1, j) \in Nat
      BY CountType
    <3>. QED
      BY <3>1, <3>2
  <2>. QED
    BY <1>0, <1>1, <2>3, <2>4
<1>. QED
  BY <1>2, <1>3 DEF PathAsMeant

(* get_abs_path_name: the name of a file becomes the normal one, however   *)
(* its parts follow one another, and the loop takes back a part that is    *)
(* not there exactly for a name that climbs above the root.                *)
THEOREM NamesAreNormal == Spec => []PathAsMeant
<1>1. Init => PathInv
  BY NoPathInv, PathInitInv, Zenon DEF Init
<1>2. PathInv /\ [Next]_vars => PathInv'
  <2>. SUFFICES ASSUME PathInv, [Next]_vars PROVE PathInv'
    OBVIOUS
  <2>1. CASE UNCHANGED pathVars
    BY <2>1 DEF pathVars, PathInv
  <2>2. CASE PathNext
    BY <2>2, PathSkips, PathKeeps, PathUps, Zenon DEF PathNext
  <2>3. Next => PathNext \/ UNCHANGED pathVars
    BY Zenon DEF Next, Letter, Tag, Level, Value, Values, Unknown, LonePercent, Directive
  <2>4. UNCHANGED vars => UNCHANGED pathVars
    BY DEF vars
  <2>. QED
    BY <2>1, <2>2, <2>3, <2>4, Zenon
<1>. QED
  BY <1>1, <1>2, PathInvMeans, PTL DEF Spec

-----------------------------------------------------------------------------
(* Lines *)

(* k percent signs in a row end just before i.                             *)
IsRun(i, k) ==
  /\ k \in 0..(i - 1)
  /\ \A j \in (i - k)..(i - 1) : fmt[j] = "%"
  /\ k < i - 1 => fmt[i - k - 1] # "%"

LEMMA RunUnique ==
  ASSUME NEW i \in Nat, NEW k \in Nat, NEW l \in Nat, IsRun(i, k), IsRun(i, l)
  PROVE  k = l
<1>1. ASSUME NEW a \in Nat, NEW b \in Nat, IsRun(i, a), IsRun(i, b), a < b PROVE FALSE
  <2>1. b <= i - 1 /\ fmt[i - a - 1] # "%"
    BY <1>1 DEF IsRun
  <2>2. i - a - 1 \in (i - b)..(i - 1)
    BY <1>1, <2>1
  <2>. QED
    BY <1>1, <2>1, <2>2 DEF IsRun
<1>. QED
  BY <1>1

LEMMA RunMore ==
  ASSUME NEW i \in Nat \ {0}, NEW k \in Nat, IsRun(i, k)
  PROVE  IsRun(i + 1, IF fmt[i] = "%" THEN k + 1 ELSE 0)
<1>1. CASE fmt[i] = "%"
  BY <1>1 DEF IsRun
<1>2. CASE fmt[i] # "%"
  BY <1>2 DEF IsRun
<1>. QED
  BY <1>1, <1>2

LEMMA RunExists == \A i \in Nat \ {0} : \E k \in Nat : IsRun(i, k)
<1>. DEFINE S == {i \in Nat : \E k \in Nat : IsRun(i + 1, k)}
<1>1. 0 \in S
  <2>1. IsRun(1, 0)
    BY DEF IsRun
  <2>. QED
    BY <2>1
<1>2. \A n \in Nat : n \in S => n + 1 \in S
  <2>. SUFFICES ASSUME NEW n \in Nat, n \in S PROVE n + 1 \in S
    OBVIOUS
  <2>1. PICK k \in Nat : IsRun(n + 1, k)
    OBVIOUS
  <2>2. IsRun(n + 1 + 1, IF fmt[n + 1] = "%" THEN k + 1 ELSE 0)
    BY <2>1, RunMore
  <2>3. (IF fmt[n + 1] = "%" THEN k + 1 ELSE 0) \in Nat
    OBVIOUS
  <2>. QED
    BY <2>2, <2>3
<1>3. Nat \subseteq S
  <2>. HIDE DEF S
  <2>. QED
    BY <1>1, <1>2, Induction
<1>. SUFFICES ASSUME NEW i \in Nat \ {0} PROVE \E k \in Nat : IsRun(i, k)
  OBVIOUS
<1>4. i - 1 \in S /\ i - 1 + 1 = i
  BY <1>3
<1>. QED
  BY <1>4

LEMMA RunIs ==
  ASSUME NEW i \in Nat \ {0}
  PROVE  Run(i) \in Nat /\ IsRun(i, Run(i))
<1>1. PICK k \in Nat : IsRun(i, k)
  BY RunExists
<1>. DEFINE P(r) == /\ \A j \in (i - r)..(i - 1) : fmt[j] = "%"
                    /\ r < i - 1 => fmt[i - r - 1] # "%"
<1>2. k \in 0..(i - 1) /\ P(k)
  BY <1>1 DEF IsRun
<1>3. Run(i) = CHOOSE r \in 0..(i - 1) : P(r)
  BY DEF Run
<1>. HIDE DEF P
<1>4. Run(i) \in 0..(i - 1) /\ P(Run(i))
  BY <1>2, <1>3
<1>. QED
  BY <1>4 DEF IsRun, P

(* A % begins a directive unless the one before it does.                   *)
LEMMA BeginsOrNot ==
  ASSUME fmt \in Seq(Chars), NEW i \in 1..Len(fmt)
  PROVE  Begins(i) <=> fmt[i] = "%" /\ ~Begins(i - 1)
<1>0. Len(fmt) \in Nat /\ DOMAIN fmt = 1..Len(fmt) /\ i \in Nat \ {0}
  OBVIOUS
<1>1. CASE i = 1
  <2>1. Run(1) = 0
    BY RunIs DEF IsRun
  <2>. QED
    BY <1>0, <1>1, <2>1 DEF Begins
<1>2. CASE i > 1
  <2>1. /\ i - 1 \in Nat \ {0} /\ i - 1 + 1 = i
        /\ Run(i - 1) \in Nat /\ IsRun(i - 1, Run(i - 1)) /\ Run(i) \in Nat /\ IsRun(i, Run(i))
    BY <1>0, <1>2, RunIs
  <2>2. IsRun(i, IF fmt[i - 1] = "%" THEN Run(i - 1) + 1 ELSE 0)
    BY <2>1, RunMore
  <2>3. Run(i) = IF fmt[i - 1] = "%" THEN Run(i - 1) + 1 ELSE 0
    BY <1>0, <2>1, <2>2, RunUnique
  <2>4. Begins(i - 1) <=> fmt[i - 1] = "%" /\ Run(i - 1) % 2 = 0
    BY <1>0, <1>2 DEF Begins
  <2>5. Begins(i) <=> fmt[i] = "%" /\ Run(i) % 2 = 0
    BY <1>0 DEF Begins
  <2>. QED
    BY <2>1, <2>3, <2>4, <2>5
<1>. QED
  BY <1>0, <1>1, <1>2

(* How many %m's there are before i.                                       *)
Used(i) == Cardinality({j \in 1..(i - 1) : Ends(j) /\ fmt[j] = "m"})

LEMMA UsedNone == Used(1) = 0
<1>1. {j \in 1..(1 - 1) : Ends(j) /\ fmt[j] = "m"} = {}
  OBVIOUS
<1>. QED
  BY <1>1, FS_EmptySet DEF Used

LEMMA UsedMore ==
  ASSUME NEW i \in Nat \ {0}
  PROVE  /\ Used(i) \in Nat
         /\ Used(i + 1) = Used(i) + (IF Ends(i) /\ fmt[i] = "m" THEN 1 ELSE 0)
<1>. DEFINE P(j) == Ends(j) /\ fmt[j] = "m"
            C == {j \in 1..(i - 1) : P(j)}
            D == {j \in 1..(i + 1 - 1) : P(j)}
<1>1. IsFiniteSet(1..(i - 1))
  BY FS_Interval
<1>. HIDE DEF P
<1>2. IsFiniteSet(C) /\ i \notin C
  BY <1>1, FS_Subset
<1>3. D = IF P(i) THEN C \cup {i} ELSE C
  OBVIOUS
<1>4. Cardinality(C \cup {i}) = Cardinality(C) + 1 /\ Cardinality(C) \in Nat
  <2>. HIDE DEF C
  <2>. QED
    BY <1>2, FS_AddElement, FS_CardinalityType
<1>5. Used(i) = Cardinality(C) /\ Used(i + 1) = Cardinality(D)
  BY DEF Used, P
<1>. HIDE DEF C, D
<1>6. /\ Used(i) \in Nat
      /\ Used(i + 1) = Used(i) + (IF P(i) THEN 1 ELSE 0)
  BY <1>3, <1>4, <1>5
<1>. QED
  BY <1>6 DEF P

LEMMA SuffixIs ==
  ASSUME NEW V, NEW g \in Seq(V), NEW k \in Nat
  PROVE  /\ SubSeq(g, k + 1, Len(g)) \in Seq(V)
         /\ SubSeq(g, k + 1, Len(g)) # <<>> <=> k < Len(g)
         /\ k < Len(g) => SubSeq(g, k + 1 + 1, Len(g)) = Tail(SubSeq(g, k + 1, Len(g)))
         /\ k >= Len(g) => SubSeq(g, k + 1 + 1, Len(g)) = <<>> /\ SubSeq(g, k + 1, Len(g)) = <<>>
<1>0. Len(g) \in Nat
  OBVIOUS
<1>1. CASE k >= Len(g)
  <2>1. /\ SubSeq(g, k + 1, Len(g)) \in Seq(V) /\ Len(SubSeq(g, k + 1, Len(g))) = 0
        /\ SubSeq(g, k + 1 + 1, Len(g)) \in Seq(V) /\ Len(SubSeq(g, k + 1 + 1, Len(g))) = 0
    BY <1>0, <1>1
  <2>2. \A x \in Seq(V) : Len(x) = 0 => x = <<>>
    OBVIOUS
  <2>. QED
    BY <1>0, <1>1, <2>1, <2>2
<1>2. CASE k < Len(g)
  <2>. DEFINE m == Len(g) - k
              a == SubSeq(g, k + 1, Len(g))
              b == SubSeq(g, k + 1 + 1, Len(g))
  <2>1. m \in Nat /\ m >= 1 /\ m - 1 \in Nat
    BY <1>0, <1>2
  <2>2. a = [j \in 1..m |-> g[k + j]]
    BY <1>0, <1>2
  <2>3. b = [j \in 1..(m - 1) |-> g[k + 1 + j]]
    BY <1>0, <1>2
  <2>4. \A j \in 1..m : g[k + j] \in V
    BY <1>0, <1>2
  <2>. HIDE DEF a, b, m
  <2>5. a \in Seq(V) /\ Len(a) = m /\ \A j \in 1..m : a[j] = g[k + j]
    BY <2>1, <2>2, <2>4
  <2>6. Tail(a) = [j \in 1..(m - 1) |-> a[j + 1]]
    <3>1. /\ Tail(a) \in Seq(V) /\ Len(Tail(a)) = m - 1
          /\ \A j \in 1..(m - 1) : Tail(a)[j] = a[j + 1]
      BY <2>1, <2>5
    <3>2. \A t \in Seq(V) : t = [j \in 1..Len(t) |-> t[j]]
      OBVIOUS
    <3>3. Tail(a) = [j \in 1..Len(Tail(a)) |-> Tail(a)[j]]
      BY <3>1, <3>2
    <3>. QED
      BY <3>1, <3>3
  <2>7. \A j \in 1..(m - 1) : a[j + 1] = g[k + 1 + j]
    BY <2>1, <2>5
  <2>8. Tail(a) = b
    BY <2>3, <2>6, <2>7
  <2>9. a # <<>>
    BY <2>1, <2>5
  <2>. QED
    <3>1. ~(k >= Len(g))
      BY <1>0, <1>2
    <3>. QED
      BY <1>2, <2>5, <2>8, <2>9, <3>1, Zenon DEF a, b
<1>3. k >= Len(g) \/ k < Len(g)
  BY <1>0
<1>. QED
  BY <1>1, <1>2, <1>3, Zenon

(* What the arguments left become past a character.                        *)
LEMMA LeftMore ==
  ASSUME NEW V, given \in Seq(V), NEW i \in Nat \ {0}
  PROVE  /\ Left(i) \in Seq(V)
         /\ Left(i + 1) = IF Ends(i) /\ fmt[i] = "m" /\ Left(i) # <<>> THEN Tail(Left(i)) ELSE Left(i)
<1>. DEFINE u == Used(i)
            n == Len(given)
<1>0. n \in Nat
  OBVIOUS
<1>1. u \in Nat
  BY UsedMore
<1>2. Left(i) = SubSeq(given, u + 1, n) /\ Left(i + 1) = SubSeq(given, Used(i + 1) + 1, n)
  BY DEF Left, Used
<1>3. /\ SubSeq(given, u + 1, n) \in Seq(V)
      /\ SubSeq(given, u + 1, n) # <<>> => SubSeq(given, u + 1 + 1, n) = Tail(SubSeq(given, u + 1, n))
      /\ SubSeq(given, u + 1, n) = <<>> => SubSeq(given, u + 1 + 1, n) = <<>>
  <2>1. u < n \/ u >= n
    BY <1>0, <1>1
  <2>2. /\ SubSeq(given, u + 1, n) \in Seq(V)
        /\ SubSeq(given, u + 1, n) # <<>> <=> u < n
        /\ u < n => SubSeq(given, u + 1 + 1, n) = Tail(SubSeq(given, u + 1, n))
        /\ u >= n => SubSeq(given, u + 1 + 1, n) = <<>>
    <3>. HIDE DEF u
    <3>. QED
      BY <1>1, SuffixIs, Zenon
  <2>. HIDE DEF u, n
  <2>. QED
    BY <2>1, <2>2
<1>4. Used(i + 1) = u + (IF Ends(i) /\ fmt[i] = "m" THEN 1 ELSE 0)
  BY UsedMore
<1>. HIDE DEF u, n
<1>5. CASE Ends(i) /\ fmt[i] = "m"
  <2>1. Left(i + 1) = SubSeq(given, u + 1 + 1, n)
    BY <1>1, <1>2, <1>4, <1>5
  <2>. QED
    BY <1>2, <1>3, <1>5, <2>1
<1>6. CASE ~(Ends(i) /\ fmt[i] = "m")
  <2>1. Left(i + 1) = SubSeq(given, u + 1, n)
    BY <1>1, <1>2, <1>4, <1>6
  <2>. QED
    BY <1>2, <1>3, <1>6, <2>1
<1>. QED
  BY <1>5, <1>6

(* level_to_name names a level after the nearest one.                      *)
LEMMA NearestName ==
  ASSUME NEW l \in 0..100
  PROVE  LevelName(l) = Nearest(l)
<1>1. Named = {10, 20, 30, 40, 50, 60, 70}
  BY DEF Named, Name
<1>. DEFINE Near(b) == \A c \in Named : \/ Distance(l, b) < Distance(l, c)
                                        \/ Distance(l, b) = Distance(l, c) /\ c <= b
            n == CHOOSE b \in Named : Near(b)
            up == CHOOSE b \in Named : l <= b /\ b < l + 10
<1>2. ASSUME NEW m \in Named, Near(m) PROVE n = m
  <2>1. \A b \in Named : Near(b) => b = m
    BY <1>1, <1>2 DEF Distance
  <2>. HIDE DEF Near
  <2>. QED
    BY <1>2, <2>1
<1>3. ASSUME NEW m \in Named, l <= m, m < l + 10 PROVE up = m
  <2>1. \A b \in Named : l <= b /\ b < l + 10 => b = m
    BY <1>1, <1>3
  <2>. QED
    BY <1>3, <2>1
<1>4. Nearest(l) = <<Name[n]>> \o (IF l > n THEN <<"+">> ELSE IF l < n THEN <<"-">> ELSE <<>>)
  BY DEF Nearest
<1>5. LevelName(l) = CASE l \in Named -> <<Name[l]>>
                       [] l < TRACE   -> <<Name[TRACE], "-">>
                       [] l > FATAL   -> <<Name[FATAL], "+">>
                       [] OTHER       -> IF l < up - (up - (up - 10)) \div 2
                                         THEN <<Name[up - 10], "+">>
                                         ELSE <<Name[up], "-">>
  BY DEF LevelName
<1>. HIDE DEF n, up
<1>6. CASE l \in Named
  <2>1. n = l
    BY <1>1, <1>2, <1>6 DEF Distance
  <2>2. Nearest(l) = <<Name[l]>> \o <<>>
    <3>1. ~(l > l) /\ ~(l < l)
      OBVIOUS
    <3>. QED
      BY <1>4, <2>1, <3>1, Zenon
  <2>3. <<Name[l]>> \o <<>> = <<Name[l]>>
    OBVIOUS
  <2>4. LevelName(l) = <<Name[l]>>
    BY <1>1, <1>5, <1>6 DEF TRACE, FATAL
  <2>. QED
    BY <2>2, <2>3, <2>4
<1>7. CASE l < TRACE
  <2>1. n = 10
    BY <1>1, <1>2, <1>7 DEF Distance, TRACE
  <2>. QED
    BY <1>1, <1>4, <1>5, <1>7, <2>1 DEF TRACE, FATAL
<1>8. CASE l > FATAL
  <2>1. n = 70
    BY <1>1, <1>2, <1>8 DEF Distance, FATAL
  <2>. QED
    BY <1>1, <1>4, <1>5, <1>8, <2>1 DEF TRACE, FATAL
<1>9. CASE l \notin Named /\ ~(l < TRACE) /\ ~(l > FATAL)
  <2>1. PICK m \in Named : l <= m /\ m < l + 10 /\ m >= 20
    BY <1>1, <1>9 DEF TRACE, FATAL
  <2>2. up = m /\ m \in Int /\ l < m /\ l > m - 10
    BY <1>1, <1>3, <1>9, <2>1
  <2>3. LevelName(l) = IF l < m - 5 THEN <<Name[m - 10], "+">> ELSE <<Name[m], "-">>
    BY <1>5, <1>9, <2>2
  <2>4. n = IF l < m - 5 THEN m - 10 ELSE m
    BY <1>1, <1>2, <2>1, <2>2 DEF Distance
  <2>. QED
    BY <1>4, <2>2, <2>3, <2>4
<1>. QED
  BY <1>6, <1>7, <1>8, <1>9

-----------------------------------------------------------------------------
(* The pieces of the line one after the other.                             *)

IsJoin(g, n, s) == g = [i \in 0..n |-> IF i = 0 THEN <<>> ELSE g[i - 1] \o s[i]]

LEMMA JoinExists ==
  ASSUME NEW s, NEW n \in Nat
  PROVE  \E g : IsJoin(g, n, s)
<1>. DEFINE S == {k \in Nat : \E g : IsJoin(g, k, s)}
<1>1. 0 \in S
  <2>. DEFINE g == [i \in 0..0 |-> <<>>]
  <2>1. IsJoin(g, 0, s)
    BY DEF IsJoin
  <2>. HIDE DEF g
  <2>. QED
    BY <2>1
<1>2. ASSUME NEW k \in Nat, k \in S PROVE k + 1 \in S
  <2>1. PICK g : IsJoin(g, k, s)
    BY <1>2
  <2>. DEFINE h == [i \in 0..(k + 1) |-> IF i = k + 1 THEN g[k] \o s[k + 1] ELSE g[i]]
  <2>2. \A i \in 0..k : g[i] = IF i = 0 THEN <<>> ELSE g[i - 1] \o s[i]
    BY <2>1 DEF IsJoin
  <2>3. \A i \in 0..(k + 1) : h[i] = IF i = 0 THEN <<>> ELSE h[i - 1] \o s[i]
    BY <2>2
  <2>4. h = [i \in 0..(k + 1) |-> h[i]]
    OBVIOUS
  <2>. HIDE DEF h
  <2>5. h = [i \in 0..(k + 1) |-> IF i = 0 THEN <<>> ELSE h[i - 1] \o s[i]]
    BY <2>3, <2>4
  <2>. QED
    BY <2>5 DEF IsJoin
<1>3. Nat \subseteq S
  <2>. HIDE DEF S
  <2>. QED
    BY <1>1, <1>2, Induction
<1>. QED
  BY <1>3

(* The line that the first i characters of the format become.              *)
Pieces == [i \in 1..Len(fmt) |-> Piece(i)]
Text == CHOOSE g : IsJoin(g, Len(fmt), Pieces)

LEMMA TextIs ==
  ASSUME fmt \in Seq(Chars)
  PROVE  /\ Text[0] = <<>>
         /\ \A i \in 1..Len(fmt) : Text[i] = Text[i - 1] \o Piece(i)
<1>1. Len(fmt) \in Nat
  OBVIOUS
<1>2. IsJoin(Text, Len(fmt), Pieces)
  BY <1>1, JoinExists DEF Text
<1>3. Text = [i \in 0..Len(fmt) |-> IF i = 0 THEN <<>> ELSE Text[i - 1] \o Pieces[i]]
  BY <1>2, Zenon DEF IsJoin
<1>. HIDE DEF Text
<1>. QED
  BY <1>1, <1>3 DEF Pieces

LEMMA TwoWords ==
  ASSUME NEW a, NEW b
  PROVE  <<a>> \o <<b>> = <<a, b>>
<1>1. \A i \in 1..2 : (<<a>> \o <<b>>)[i] = <<a, b>>[i]
  OBVIOUS
<1>2. Len(<<a>> \o <<b>>) = 2
  OBVIOUS
<1>3. <<a>> \o <<b>> \in Seq({a, b}) /\ <<a, b>> \in Seq({a, b}) /\ Len(<<a, b>>) = 2
  OBVIOUS
<1>4. \A x, y \in Seq({a, b}) : Len(x) = Len(y) /\ (\A i \in 1..Len(x) : x[i] = y[i]) => x = y
  OBVIOUS
<1>. QED
  BY <1>1, <1>2, <1>3, <1>4

(* They are sequences of words.                                            *)
Words(V) == Chars \cup V \cup {"+", "-", Nearest(Clamp(level))[1]}

LEMMA NearestIsSeq ==
  ASSUME NEW l
  PROVE  Nearest(l) \in Seq({"+", "-", Nearest(l)[1]})
<1>. DEFINE n == CHOOSE b \in Named :
                   \A c \in Named : \/ Distance(l, b) < Distance(l, c)
                                    \/ Distance(l, b) = Distance(l, c) /\ c <= b
            a == Name[n]
            s == IF l > n THEN <<"+">> ELSE IF l < n THEN <<"-">> ELSE <<>>
<1>1. Nearest(l) = <<a>> \o s
  BY DEF Nearest
<1>2. s \in {<<"+">>, <<"-">>, <<>>}
  BY Zenon
<1>. HIDE DEF a, s
<1>3. ASSUME NEW t \in {<<"+">>, <<"-">>, <<>>}
      PROVE  (<<a>> \o t)[1] = a /\ <<a>> \o t \in Seq({"+", "-", a})
  <2>1. CASE t = <<>>
    <3>1. <<a>> \o <<>> = <<a>>
      OBVIOUS
    <3>. QED
      BY <2>1, <3>1
  <2>2. CASE t = <<"+">>
    <3>1. <<a>> \o <<"+">> = <<a, "+">>
      BY TwoWords
    <3>. QED
      BY <2>2, <3>1
  <2>3. CASE t = <<"-">>
    <3>1. <<a>> \o <<"-">> = <<a, "-">>
      BY TwoWords
    <3>. QED
      BY <2>3, <3>1
  <2>. QED
    BY <2>1, <2>2, <2>3
<1>. QED
  BY <1>1, <1>2, <1>3

LEMMA PieceIsSeq ==
  ASSUME NEW V, fmt \in Seq(Chars), given \in Seq(V), NEW i \in 1..Len(fmt)
  PROVE  Piece(i) \in Seq(Words(V))
<1>1. fmt[i] \in Chars /\ i \in Nat \ {0} /\ "%" \in Chars
  BY DEF Chars
<1>2. Left(i) \in Seq(V)
  BY <1>1, LeftMore
<1>3. Left(i) # <<>> => Head(Left(i)) \in V
  BY <1>2
<1>4. /\ Left(i) \in Seq(Words(V))
      /\ Nearest(Clamp(level)) \in Seq(Words(V))
  <2>1. V \subseteq Words(V) /\ {"+", "-", Nearest(Clamp(level))[1]} \subseteq Words(V)
    BY Zenon DEF Words
  <2>2. Nearest(Clamp(level)) \in Seq({"+", "-", Nearest(Clamp(level))[1]})
    BY NearestIsSeq
  <2>. QED
    BY <1>2, <2>1, <2>2, SeqMore, Zenon
<1>5. /\ <<>> \in Seq(Words(V)) /\ <<fmt[i]>> \in Seq(Words(V)) /\ <<"%", fmt[i]>> \in Seq(Words(V))
      /\ Left(i) # <<>> => <<Head(Left(i))>> \in Seq(Words(V))
  BY <1>1, <1>3 DEF Words
<1>6. \/ Piece(i) = <<>> \/ Piece(i) = <<fmt[i]>> \/ Piece(i) = Nearest(Clamp(level))
      \/ Left(i) # <<>> /\ Piece(i) = <<Head(Left(i))>>
      \/ Piece(i) = Left(i) \/ Piece(i) = <<"%", fmt[i]>>
  BY DEF Piece
<1>. QED
  BY <1>4, <1>5, <1>6, Zenon

LEMMA TextIsSeq ==
  ASSUME NEW V, fmt \in Seq(Chars), given \in Seq(V)
  PROVE  \A i \in 0..Len(fmt) : Text[i] \in Seq(Words(V))
<1>. DEFINE S == {i \in Nat : i <= Len(fmt) => Text[i] \in Seq(Words(V))}
<1>0. Len(fmt) \in Nat
  OBVIOUS
<1>1. 0 \in S
  <2>1. <<>> \in Seq(Words(V))
    OBVIOUS
  <2>. QED
    BY <2>1, TextIs
<1>2. ASSUME NEW i \in Nat, i \in S PROVE i + 1 \in S
  <2>. SUFFICES ASSUME i + 1 <= Len(fmt) PROVE Text[i + 1] \in Seq(Words(V))
    OBVIOUS
  <2>1. Text[i] \in Seq(Words(V)) /\ i + 1 \in 1..Len(fmt)
    BY <1>0, <1>2
  <2>2. Piece(i + 1) \in Seq(Words(V))
    BY <2>1, PieceIsSeq
  <2>3. Text[i + 1] = Text[i] \o Piece(i + 1)
    <3>1. \A j \in 1..Len(fmt) : Text[j] = Text[j - 1] \o Piece(j)
      BY TextIs
    <3>2. PICK j \in 1..Len(fmt) : j = i + 1
      BY <2>1
    <3>3. Text[j] = Text[j - 1] \o Piece(j)
      BY <3>1
    <3>. QED
      BY <3>2, <3>3, j - 1 = i
  <2>. QED
    BY <2>1, <2>2, <2>3
<1>3. Nat \subseteq S
  <2>. HIDE DEF S
  <2>. QED
    BY <1>1, <1>2, Induction
<1>. QED
  BY <1>0, <1>3

IsFlat(g, s) == g = [i \in 1..Len(s) |-> IF i = 1 THEN s[i] ELSE g[i - 1] \o s[i]]
Flat(s) == CHOOSE g : IsFlat(g, s)

LEMMA FlattenIs ==
  ASSUME NEW s
  PROVE  FlattenSeq(s) = IF Len(s) = 0 THEN s ELSE Flat(s)[Len(s)]
  BY DEF FlattenSeq, Flat, IsFlat

(* Reference is all of it.                                                 *)
LEMMA ReferenceIs ==
  ASSUME NEW V, fmt \in Seq(Chars), given \in Seq(V)
  PROVE  Reference = Text[Len(fmt)]
<1>. DEFINE n == Len(fmt)
            T == [i \in 1..n |-> Text[i]]
<1>0. n \in Nat /\ Pieces = [i \in 1..n |-> Piece(i)] /\ Len(Pieces) = n
  BY DEF Pieces
<1>1. \A i \in 1..n : Pieces[i] = Piece(i) /\ Pieces[i] \in Seq(Words(V))
  BY <1>0, PieceIsSeq
<1>2. \A i \in 1..n : Text[i] = IF i = 1 THEN Pieces[i] ELSE Text[i - 1] \o Pieces[i]
  <2>1. \A x \in Seq(Words(V)) : <<>> \o x = x
    OBVIOUS
  <2>2. 1 - 1 = 0
    OBVIOUS
  <2>3. Text[0] = <<>> /\ \A i \in 1..Len(fmt) : Text[i] = Text[i - 1] \o Piece(i)
    BY TextIs
  <2>4. ASSUME 1 \in 1..n PROVE Text[1] = Pieces[1]
    <3>1. Text[1] = Text[0] \o Piece(1)
      BY <2>2, <2>3, <2>4
    <3>2. Text[1] = <<>> \o Pieces[1] /\ Pieces[1] \in Seq(Words(V))
      BY <1>1, <2>3, <2>4, <3>1, Zenon
    <3>. QED
      BY <2>1, <3>2, Zenon
  <2>. QED
    BY <1>1, <2>3, <2>4, Zenon
<1>3. IsFlat(T, Pieces)
  <2>1. \A i \in 1..n : T[i] = IF i = 1 THEN Pieces[i] ELSE T[i - 1] \o Pieces[i]
    BY <1>0, <1>2
  <2>2. T = [i \in 1..n |-> T[i]]
    OBVIOUS
  <2>. HIDE DEF n, T
  <2>. QED
    BY <1>0, <2>1, <2>2 DEF IsFlat
<1>4. IsFlat(Flat(Pieces), Pieces)
  <2>. HIDE DEF T
  <2>. QED
    BY <1>3, Zenon DEF Flat
<1>. HIDE DEF n
<1>5. \A i \in 1..n :
        Flat(Pieces)[i] = IF i = 1 THEN Pieces[i] ELSE Flat(Pieces)[i - 1] \o Pieces[i]
  <2>1. Flat(Pieces) = [i \in 1..n |-> IF i = 1 THEN Pieces[i] ELSE Flat(Pieces)[i - 1] \o Pieces[i]]
    BY <1>0, <1>4 DEF IsFlat
  <2>. QED
    BY <2>1
<1>. DEFINE S == {i \in Nat : i + 1 <= n => Flat(Pieces)[i + 1] = Text[i + 1]}
<1>6. 0 \in S
  BY <1>0, <1>2, <1>5
<1>7. ASSUME NEW i \in Nat, i \in S PROVE i + 1 \in S
  <2>. SUFFICES ASSUME i + 1 + 1 <= n PROVE Flat(Pieces)[i + 1 + 1] = Text[i + 1 + 1]
    OBVIOUS
  <2>1. i + 1 + 1 \in 1..n /\ i + 1 + 1 # 1 /\ i + 1 + 1 - 1 = i + 1 /\ Flat(Pieces)[i + 1] = Text[i + 1]
    BY <1>0, <1>7
  <2>. QED
    BY <1>2, <1>5, <2>1
<1>8. Nat \subseteq S
  <2>. HIDE DEF S
  <2>. QED
    BY <1>6, <1>7, Induction
<1>9. n > 0 => Flat(Pieces)[n] = Text[n]
  <2>1. n > 0 => n - 1 \in S /\ n - 1 + 1 = n
    BY <1>0, <1>8
  <2>. QED
    BY <1>0, <2>1
<1>11. Reference = IF n = 0 THEN Pieces ELSE Flat(Pieces)[n]
  BY <1>0, FlattenIs DEF Reference, Pieces, n
<1>12. n = 0 => Pieces = <<>>
  BY <1>0
<1>. QED
  BY <1>0, <1>9, <1>11, <1>12, TextIs DEF n

-----------------------------------------------------------------------------
(* What the loop over the format keeps: it has printed what the characters *)
(* behind it become, it is not between a % and its letter, and it has the  *)
(* arguments that the %m's behind it have left.                            *)
Arguments == UNION {Range(a) : a \in Args}

LineInv ==
  /\ fmt \in Seq(Chars) /\ given \in Seq(Arguments) /\ level \in Int
  /\ at \in 1..(Len(fmt) + 2)
  /\ at <= Len(fmt) + 1 => out = Text[at - 1] /\ ~Begins(at - 1) /\ args = Left(at)
  /\ at = Len(fmt) + 2 => Begins(Len(fmt))

LEMMA SameText ==
  ASSUME UNCHANGED <<fmt, given, level>>
  PROVE  /\ Text' = Text
         /\ \A i : (Begins(i)' <=> Begins(i)) /\ Left(i)' = Left(i)
<1>1. \A i : Begins(i)' <=> Begins(i)
  BY DEF Begins, Run
<1>2. \A i : Ends(i)' <=> Ends(i)
  BY <1>1 DEF Ends
<1>3. \A i : Left(i)' = Left(i)
  BY <1>2 DEF Left
<1>4. Nearest(Clamp(level))' = Nearest(Clamp(level))
  BY DEF Nearest, Clamp
<1>5. \A i : Piece(i)' = Piece(i)
  BY <1>1, <1>2, <1>3, <1>4 DEF Piece
<1>6. Pieces' = Pieces
  BY <1>5 DEF Pieces
<1>7. Text' = Text
  BY <1>6 DEF Text
<1>. QED
  BY <1>1, <1>3, <1>7

(* What a character becomes.                                               *)
LEMMA PieceOfLetter ==
  ASSUME fmt \in Seq(Chars), NEW i \in 1..Len(fmt), ~Begins(i - 1), fmt[i] # "%"
  PROVE  Piece(i) = <<fmt[i]>> /\ ~Begins(i) /\ ~Ends(i)
<1>1. ~Begins(i)
  BY BeginsOrNot
<1>2. ~Ends(i)
  BY DEF Ends
<1>. QED
  BY <1>1, <1>2 DEF Piece

LEMMA PieceOfPercent ==
  ASSUME fmt \in Seq(Chars), NEW i \in 1..Len(fmt), ~Begins(i - 1), fmt[i] = "%"
  PROVE  Piece(i) = <<>> /\ Begins(i) /\ ~Ends(i)
<1>1. Begins(i)
  BY BeginsOrNot
<1>2. ~Ends(i)
  BY DEF Ends
<1>. QED
  BY <1>1, <1>2 DEF Piece

LEMMA PieceOfDirective ==
  ASSUME fmt \in Seq(Chars), NEW i \in 1..Len(fmt), i > 1, Begins(i - 1)
  PROVE  /\ Ends(i) /\ ~Begins(i)
         /\ fmt[i] \in Tags \cup {"%"} => Piece(i) = <<fmt[i]>>
         /\ fmt[i] = "L" => Piece(i) = Nearest(Clamp(level))
         /\ fmt[i] = "m" => Piece(i) = IF Left(i) # <<>> THEN <<Head(Left(i))>> ELSE <<"%", "m">>
         /\ fmt[i] = "M" => Piece(i) = IF Left(i) # <<>> THEN Left(i) ELSE <<"%", "M">>
         /\ fmt[i] \in Plain => Piece(i) = IF Left(i) # <<>> THEN <<>> ELSE <<"%", fmt[i]>>
<1>1. ~Begins(i)
  BY BeginsOrNot
<1>2. Ends(i)
  BY DEF Ends
<1>3. /\ \A c \in Tags \cup {"%"} : c \notin Plain /\ c # "L" /\ c # "m" /\ c # "M"
      /\ \A c \in Plain : c # "L" /\ c # "m" /\ c # "M"
  BY LogTextAssumption
<1>4. fmt[i] \in Tags \cup {"%"} => Piece(i) = <<fmt[i]>>
  BY <1>1, <1>2, <1>3 DEF Piece
<1>5. fmt[i] = "L" => Piece(i) = Nearest(Clamp(level))
  BY <1>1, <1>2, <1>3 DEF Piece
<1>6. fmt[i] = "m" => Piece(i) = IF Left(i) # <<>> THEN <<Head(Left(i))>> ELSE <<"%", "m">>
  BY <1>1, <1>2, <1>3 DEF Piece
<1>7. fmt[i] = "M" => Piece(i) = IF Left(i) # <<>> THEN Left(i) ELSE <<"%", "M">>
  BY <1>1, <1>2, <1>3 DEF Piece
<1>8. fmt[i] \in Plain => Piece(i) = IF Left(i) # <<>> THEN <<>> ELSE <<"%", fmt[i]>>
  BY <1>1, <1>2, <1>3 DEF Piece
<1>. QED
  BY <1>1, <1>2, <1>4, <1>5, <1>6, <1>7, <1>8

(* What the loop prints at a directive, and which arguments it leaves.     *)
LEMMA DirectiveKeeps ==
  ASSUME LineInv, NEW letters, Directive(letters),
         Prints(Piece(at + 1)),
         args' = IF fmt[at + 1] = "m" /\ args # <<>> THEN Tail(args) ELSE args
  PROVE  LineInv'
<1>0. /\ fmt \in Seq(Chars) /\ given \in Seq(Arguments) /\ level \in Int
      /\ fmt' = fmt /\ given' = given /\ level' = level
      /\ Len(fmt) \in Nat /\ at \in 1..Len(fmt) /\ at + 1 \in 1..Len(fmt) /\ at \in Nat \ {0}
      /\ at' = at + 2 /\ fmt[at] = "%" /\ at + 1 - 1 = at /\ at + 1 \in Nat \ {0} /\ at + 1 > 1
  BY DEF LineInv, Directive
<1>1. out = Text[at - 1] /\ ~Begins(at - 1) /\ args = Left(at)
  BY <1>0 DEF LineInv
<1>2. Text' = Text /\ \A i : (Begins(i)' <=> Begins(i)) /\ Left(i)' = Left(i)
  BY <1>0, SameText
<1>3. Piece(at) = <<>> /\ Begins(at) /\ ~Ends(at)
  BY <1>0, <1>1, PieceOfPercent
<1>4. Ends(at + 1) /\ ~Begins(at + 1)
  BY <1>0, <1>3, PieceOfDirective
<1>5. Text[at] = Text[at - 1]
  <2>1. Text[at - 1] \in Seq(Words(Arguments))
    BY <1>0, TextIsSeq
  <2>2. Text[at] = Text[at - 1] \o <<>>
    BY <1>0, <1>3, TextIs
  <2>3. \A x \in Seq(Words(Arguments)) : x \o <<>> = x
    OBVIOUS
  <2>. QED
    BY <2>1, <2>2, <2>3
<1>6. Text[at + 1] = Text[at] \o Piece(at + 1)
  <2>1. PICK j \in 1..Len(fmt) : j = at + 1
    BY <1>0
  <2>2. Text[j] = Text[j - 1] \o Piece(j)
    BY <1>0, TextIs
  <2>3. j - 1 = at
    BY <1>0, <2>1
  <2>. QED
    BY <2>1, <2>2, <2>3, Zenon
<1>7. out' = Text[at + 1]
  BY <1>1, <1>5, <1>6 DEF Prints
<1>8. Left(at + 1) = args
  BY <1>0, <1>1, <1>3, LeftMore
<1>9. Left(at + 1 + 1) = args'
  BY <1>0, <1>4, <1>8, LeftMore
<1>10. at' - 1 = at + 1 /\ at' = at + 1 + 1 /\ at' \in 1..(Len(fmt) + 1) /\ at' # Len(fmt) + 2
  BY <1>0
<1>. QED
  BY <1>0, <1>2, <1>4, <1>7, <1>9, <1>10 DEF LineInv

LEMMA LineInit == Init => LineInv
<1>. SUFFICES ASSUME Init PROVE LineInv
  OBVIOUS
<1>1. fmt \in Seq(Chars) /\ given \in Seq(Arguments) /\ level \in Int
  <2>1. CASE fmt \in BoundedSeq(Chars, MaxLength) /\ given \in Args /\ level = LOG
    BY <2>1, BoundedIsSeq, LogTextAssumption DEF LOG, Arguments
  <2>2. CASE fmt = <<"%", "L">> /\ given = <<>> /\ level \in -5..105
    BY <2>2 DEF Chars
  <2>3. CASE fmt = <<>> /\ given = <<>> /\ level = LOG
    BY <2>3 DEF LOG
  <2>. QED
    BY <2>1, <2>2, <2>3, Zenon DEF Init
<1>2. args = given /\ at = 1 /\ out = <<>>
  BY Zenon DEF Init
<1>3. Len(fmt) \in Nat /\ 0 \notin DOMAIN fmt
  BY <1>1
<1>4. Text[0] = <<>> /\ ~Begins(0)
  BY <1>1, <1>3, TextIs DEF Begins
<1>5. Left(1) = given
  <2>1. Left(1) = SubSeq(given, 0 + 1, Len(given))
    BY UsedNone DEF Left, Used
  <2>2. \A g \in Seq(Arguments) : SubSeq(g, 0 + 1, Len(g)) = g
    OBVIOUS
  <2>. QED
    BY <1>1, <2>1, <2>2
<1>. QED
  BY <1>1, <1>2, <1>3, <1>4, <1>5 DEF LineInv

LEMMA LetterKeeps == LineInv /\ Letter => LineInv'
<1>. SUFFICES ASSUME LineInv, Letter PROVE LineInv'
  OBVIOUS
<1>0. /\ fmt \in Seq(Chars) /\ given \in Seq(Arguments) /\ level \in Int
      /\ fmt' = fmt /\ given' = given /\ level' = level /\ args' = args
      /\ Len(fmt) \in Nat /\ at \in 1..Len(fmt) /\ at \in Nat \ {0}
      /\ at' = at + 1 /\ fmt[at] # "%" /\ out' = out \o <<fmt[at]>>
  BY DEF LineInv, Letter, Prints
<1>1. out = Text[at - 1] /\ ~Begins(at - 1) /\ args = Left(at)
  BY <1>0 DEF LineInv
<1>2. Text' = Text /\ \A i : (Begins(i)' <=> Begins(i)) /\ Left(i)' = Left(i)
  BY <1>0, SameText
<1>3. Piece(at) = <<fmt[at]>> /\ ~Begins(at) /\ ~Ends(at)
  BY <1>0, <1>1, PieceOfLetter
<1>4. out' = Text[at]
  BY <1>0, <1>1, <1>3, TextIs
<1>5. Left(at + 1) = args
  BY <1>0, <1>1, <1>3, LeftMore
<1>6. at' - 1 = at /\ at' \in 1..(Len(fmt) + 1) /\ at' # Len(fmt) + 2
  BY <1>0
<1>7. out' = (Text[at - 1])' /\ ~Begins(at - 1)' /\ args' = Left(at)'
  BY <1>0, <1>2, <1>3, <1>4, <1>5, <1>6
<1>. QED
  BY <1>0, <1>6, <1>7 DEF LineInv

LEMMA DirectivesKeep ==
  ASSUME LineInv, Tag \/ Level \/ Value \/ Values \/ Unknown
  PROVE  LineInv'
<1>. DEFINE i == at + 1
<1>1. ASSUME NEW letters, Directive(letters)
      PROVE  /\ fmt \in Seq(Chars) /\ level \in Int /\ i \in 1..Len(fmt)
             /\ fmt[i] \in letters
             /\ args = Left(i)
             /\ fmt[i] \in Tags \cup {"%"} => Piece(i) = <<fmt[i]>>
             /\ fmt[i] = "L" => Piece(i) = Nearest(Clamp(level))
             /\ fmt[i] = "m" => Piece(i) = IF args # <<>> THEN <<Head(args)>> ELSE <<"%", "m">>
             /\ fmt[i] = "M" => Piece(i) = IF args # <<>> THEN args ELSE <<"%", "M">>
             /\ fmt[i] \in Plain => Piece(i) = IF args # <<>> THEN <<>> ELSE <<"%", fmt[i]>>
  <2>1. /\ fmt \in Seq(Chars) /\ given \in Seq(Arguments) /\ level \in Int
        /\ at \in 1..Len(fmt) /\ at \in Nat \ {0} /\ i \in 1..Len(fmt) /\ i > 1 /\ i - 1 = at
        /\ fmt[at] = "%" /\ fmt[i] \in letters
    BY <1>1 DEF LineInv, Directive
  <2>2. ~Begins(at - 1) /\ args = Left(at)
    BY <2>1 DEF LineInv
  <2>3. Begins(at) /\ ~Ends(at)
    BY <2>1, <2>2, PieceOfPercent
  <2>4. Left(i) = args
    BY <2>1, <2>2, <2>3, LeftMore
  <2>. HIDE DEF i
  <2>. QED
    BY <2>1, <2>3, <2>4, PieceOfDirective
<1>2. /\ \A c \in Tags \cup {"%"} : c # "m"
      /\ \A c \in Plain : c # "m"
  BY LogTextAssumption
<1>3. CASE Tag
  <2>1. Directive(Tags \cup {"%"}) /\ Prints(<<fmt[i]>>) /\ args' = args
    BY <1>3, Zenon DEF Tag
  <2>2. Piece(i) = <<fmt[i]>> /\ fmt[i] # "m"
    BY <1>1, <1>2, <2>1
  <2>. QED
    BY <2>1, <2>2, DirectiveKeeps
<1>4. CASE Level
  <2>1. Directive({"L"}) /\ Prints(LevelName(Clamp(level))) /\ args' = args
    BY <1>4, Zenon DEF Level
  <2>2. Piece(i) = Nearest(Clamp(level)) /\ fmt[i] # "m" /\ level \in Int
    BY <1>1, <2>1
  <2>3. Clamp(level) \in 0..100
    BY <2>2 DEF Clamp
  <2>4. Piece(i) = LevelName(Clamp(level))
    BY <2>2, <2>3, NearestName
  <2>. QED
    BY <2>1, <2>2, <2>4, DirectiveKeeps
<1>5. CASE Value
  <2>1. /\ Directive({"m"})
        /\ IF args = <<>> THEN Prints(<<"%", "m">>) /\ args' = args
                          ELSE Prints(<<Head(args)>>) /\ args' = Tail(args)
    BY <1>5, Zenon DEF Value
  <2>2. Piece(i) = (IF args # <<>> THEN <<Head(args)>> ELSE <<"%", "m">>) /\ fmt[i] = "m"
    BY <1>1, <2>1
  <2>. QED
    BY <2>1, <2>2, DirectiveKeeps
<1>6. CASE Values
  <2>1. Directive({"M"}) /\ Prints(IF args = <<>> THEN <<"%", "M">> ELSE args) /\ args' = args
    BY <1>6, Zenon DEF Values
  <2>2. Piece(i) = (IF args # <<>> THEN args ELSE <<"%", "M">>) /\ fmt[i] # "m"
    BY <1>1, <2>1
  <2>. QED
    BY <2>1, <2>2, DirectiveKeeps
<1>7. CASE Unknown
  <2>1. Directive(Plain) /\ Prints(IF args = <<>> THEN <<"%", fmt[i]>> ELSE <<>>) /\ args' = args
    BY <1>7, Zenon DEF Unknown
  <2>2. Piece(i) = (IF args # <<>> THEN <<>> ELSE <<"%", fmt[i]>>) /\ fmt[i] # "m"
    BY <1>1, <1>2, <2>1
  <2>. QED
    BY <2>1, <2>2, DirectiveKeeps
<1>. QED
  BY <1>3, <1>4, <1>5, <1>6, <1>7

LEMMA LonePercentKeeps == LineInv /\ LonePercent => LineInv'
<1>. SUFFICES ASSUME LineInv, LonePercent PROVE LineInv'
  OBVIOUS
<1>0. /\ fmt \in Seq(Chars) /\ given \in Seq(Arguments) /\ level \in Int
      /\ fmt' = fmt /\ given' = given /\ level' = level
      /\ Len(fmt) \in Nat /\ at \in 1..Len(fmt) /\ at = Len(fmt) /\ at' = Len(fmt) + 2 /\ fmt[at] = "%"
  BY DEF LineInv, LonePercent
<1>1. ~Begins(at - 1)
  BY <1>0 DEF LineInv
<1>2. Begins(Len(fmt))
  BY <1>0, <1>1, PieceOfPercent
<1>3. \A i : Begins(i)' <=> Begins(i)
  BY <1>0, SameText
<1>. QED
  BY <1>0, <1>2, <1>3 DEF LineInv

LEMMA LineInvMeans == LineInv => LineAsMeant
<1>. SUFFICES ASSUME LineInv PROVE LineAsMeant
  OBVIOUS
<1>1. Len(fmt) \in Nat /\ at \in 1..(Len(fmt) + 2)
  BY DEF LineInv
<1>2. at = Len(fmt) + 1 => out = Reference /\ ~Begins(Len(fmt))
  <2>. SUFFICES ASSUME at = Len(fmt) + 1 PROVE out = Reference /\ ~Begins(Len(fmt))
    OBVIOUS
  <2>1. at - 1 = Len(fmt) /\ at <= Len(fmt) + 1
    BY <1>1
  <2>2. out = Text[Len(fmt)] /\ ~Begins(Len(fmt))
    BY <2>1 DEF LineInv
  <2>3. Reference = Text[Len(fmt)]
    BY ReferenceIs DEF LineInv
  <2>. QED
    BY <2>2, <2>3
<1>3. at > Len(fmt) + 1 => Begins(Len(fmt))
  BY <1>1 DEF LineInv
<1>. QED
  BY <1>2, <1>3 DEF LineAsMeant

(* log_to_stream: the line is what the appender's format and the arguments *)
(* of the call mean, for every format, all arguments and every level.      *)
THEOREM LinesAreMeant == Spec => []LineAsMeant
<1>1. LineInv /\ [Next]_vars => LineInv'
  <2>. SUFFICES ASSUME LineInv, [Next]_vars PROVE LineInv'
    OBVIOUS
  <2>1. CASE UNCHANGED textVars
    <3>1. /\ fmt' = fmt /\ given' = given /\ level' = level
          /\ args' = args /\ at' = at /\ out' = out
      BY <2>1 DEF textVars
    <3>2. Text' = Text /\ \A i : (Begins(i)' <=> Begins(i)) /\ Left(i)' = Left(i)
      BY <3>1, SameText
    <3>. QED
      BY <3>1, <3>2 DEF LineInv
  <2>2. UNCHANGED vars => UNCHANGED textVars
    BY DEF vars
  <2>. QED
    BY <2>1, <2>2, LetterKeeps, DirectivesKeep, LonePercentKeeps, Zenon DEF Next
<1>. QED
  BY <1>1, LineInit, LineInvMeans, PTL DEF Spec

=============================================================================
