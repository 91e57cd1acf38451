--------------------------- MODULE LogFilesProofs ----------------------------
(***************************************************************************)
(* What holds of one file object for every number of writers, every limit  *)
(* and all lengths of messages.                                            *)
(***************************************************************************)
EXTENDS LogFiles, FiniteSetTheorems, WellFoundedInduction, TLAPS

Calls == [len : Nat, now : Nat, due : BOOLEAN]

(* The shape of the state: a call has seen a time that has been, and a file *)
(* holds messages that were written.                                        *)
ShapeOK ==
  /\ kind \in {"infinite", "truncated", "splitted"} /\ shared \in BOOLEAN
  /\ clock \in Nat /\ clock <= MaxTime
  /\ written \in Seq(Nat)
  /\ files \in [Times -> Seq(Nat)]
  /\ \A s \in Times : \A i \in 1..Len(files[s]) : files[s][i] <= Len(written)
  /\ open \in Times \cup {None} /\ (open # None => open <= clock)
  /\ call \in [Writers -> Calls \cup {None}]
  /\ \A w \in Writers : call[w] # None => call[w].now <= clock

(* The open file ends with the last message; the infinite one has lost      *)
(* nothing since it was first opened.                                       *)
NoGaps ==
  /\ \A s \in Times : \A i \in 1..(Len(files[s]) - 1) : files[s][i + 1] = files[s][i] + 1
  /\ open # None =>
       /\ Len(files[open]) > 0 /\ files[open][Len(files[open])] = Len(written)
  /\ open = None /\ kind = "infinite" => files[0] = <<>>

(* No file is later than the open one, nor than what the one call there is  *)
(* through a logger has seen of the clock.                                  *)
NoneLater ==
  ~shared =>
    /\ \A v, w \in Writers : call[v] # None /\ call[w] # None => v = w
    /\ \A s \in Times : files[s] # <<>> =>
         /\ s <= clock
         /\ open # None => s <= open
         /\ \A w \in Writers : call[w] # None => s <= call[w].now
    /\ kind # "splitted" => \A s \in Times : files[s] # <<>> => s = 0
    /\ kind # "splitted" => open \in {0, None}

FilesInv == ShapeOK /\ NoGaps /\ NoneLater /\ FilesInOrder

LEMMA FilesInit == Init => FilesInv
<1>. SUFFICES ASSUME Init PROVE FilesInv
  OBVIOUS
<1>1. <<>> \in Seq(Nat) /\ Len(<<>>) = 0 /\ DOMAIN <<>> = {}
  OBVIOUS
<1>2. 0 \in Times /\ None \notin Times
  BY LogFilesAssumption DEF Times
<1>3. ShapeOK
  BY <1>1, LogFilesAssumption DEF Init, ShapeOK, Times
<1>4. NoGaps
  BY <1>1, <1>2, LogFilesAssumption DEF Init, NoGaps, Times
<1>5. NoneLater
  BY LogFilesAssumption DEF Init, NoneLater
<1>6. FilesInOrder
  BY <1>1 DEF Init, FilesInOrder
<1>. QED
  BY <1>3, <1>4, <1>5, <1>6 DEF FilesInv

LEMMA TickKeeps == FilesInv /\ Tick => FilesInv'
<1>. SUFFICES ASSUME FilesInv, Tick PROVE FilesInv'
  OBVIOUS
<1>. USE LogFilesAssumption DEF Tick, configVars, fileVars
<1>1. ShapeOK'
  <2>1. ASSUME NEW w \in Writers, call[w] # None PROVE call[w].now <= clock + 1
    BY <2>1 DEF FilesInv, ShapeOK, Calls
  <2>2. open # None => open <= clock + 1
    BY DEF FilesInv, ShapeOK, Times
  <2>. QED
    BY <2>1, <2>2 DEF FilesInv, ShapeOK
<1>2. NoGaps' /\ FilesInOrder'
  BY DEF FilesInv, NoGaps, FilesInOrder
<1>3. NoneLater'
  BY DEF FilesInv, ShapeOK, NoneLater, Times
<1>. QED
  BY <1>1, <1>2, <1>3 DEF FilesInv

LEMMA BeginKeeps == ASSUME FilesInv, NEW w \in Writers, Begin(w) PROVE FilesInv'
<1>. USE LogFilesAssumption DEF configVars, fileVars
<1>1. PICK n \in Lengths, due \in TimeOut :
        call' = [call EXCEPT ![w] = [len |-> n, now |-> clock, due |-> due]]
  BY DEF Begin
<1>2. [len |-> n, now |-> clock, due |-> due] \in Calls
  BY DEF FilesInv, ShapeOK, Calls, TimeOut
<1>3. ShapeOK'
  <2>1. call' \in [Writers -> Calls \cup {None}]
    BY <1>1, <1>2 DEF FilesInv, ShapeOK
  <2>2. ASSUME NEW v \in Writers, call'[v] # None PROVE call'[v].now <= clock
    BY <1>1, <2>2 DEF FilesInv, ShapeOK
  <2>. QED
    BY <2>1, <2>2 DEF FilesInv, ShapeOK, Begin
<1>4. NoGaps' /\ FilesInOrder'
  BY DEF FilesInv, NoGaps, FilesInOrder, Begin
<1>5. NoneLater'
  <2>. SUFFICES ASSUME ~shared PROVE NoneLater'
    BY DEF NoneLater, Begin
  <2>1. \A v \in Writers : call'[v] # None => v = w /\ call'[v].now = clock
    BY <1>1 DEF FilesInv, ShapeOK, Begin
  <2>. QED
    BY <2>1 DEF FilesInv, NoneLater, Begin
<1>. QED
  BY <1>3, <1>4, <1>5 DEF FilesInv

(* The call of w is over, the others go on.                                 *)
LEMMA EndKeeps ==
  ASSUME FilesInv, NEW w \in Writers, EndsCall(w)
  PROVE  /\ call' \in [Writers -> Calls \cup {None}]
         /\ \A v \in Writers : call'[v] # None => call'[v] = call[v] /\ v # w
BY LogFilesAssumption DEF FilesInv, ShapeOK, EndsCall

LEMMA DropKeeps == ASSUME FilesInv, NEW w \in Writers, Drop(w) PROVE FilesInv'
<1>1. /\ \A v \in Writers : call'[v] # None => call'[v] = call[v] /\ v # w
      /\ call' \in [Writers -> Calls \cup {None}]
  BY EndKeeps DEF Drop
<1>2. written' \in Seq(Nat) /\ Len(written') = Len(written) + 1 /\ Len(written) \in Nat
  <2>1. written \in Seq(Nat) /\ call[w].len \in Nat
    BY DEF FilesInv, ShapeOK, Drop, Calls
  <2>. QED
    BY <2>1 DEF Drop
<1>3. ShapeOK'
  <2>1. ASSUME NEW s \in Times, NEW i \in 1..Len(files[s]) PROVE files[s][i] <= Len(written')
    <3>1. files[s] \in Seq(Nat) /\ files[s][i] <= Len(written)
      BY DEF FilesInv, ShapeOK
    <3>2. files[s][i] \in Nat
      BY <3>1
    <3>. QED
      BY <1>2, <3>1, <3>2
  <2>. QED
    BY <1>1, <1>2, <2>1 DEF FilesInv, ShapeOK, Drop, configVars
<1>4. NoGaps'
  BY DEF FilesInv, NoGaps, Drop, RollsOver, configVars
<1>5. NoneLater'
  BY <1>1 DEF FilesInv, NoneLater, Drop, configVars
<1>6. FilesInOrder'
  BY DEF FilesInv, FilesInOrder, Drop, configVars
<1>. QED
  BY <1>3, <1>4, <1>5, <1>6 DEF FilesInv

(* The file a message goes to and what is in it before: nothing, or what    *)
(* ends with the last message.                                              *)
LEMMA WriteSteps ==
  ASSUME FilesInv, NEW w \in Writers, Write(w)
  PROVE  \E to \in Times, old \in Seq(Nat) :
           /\ open' = to
           /\ files' = [files EXCEPT ![to] = Append(old, Len(written) + 1)]
           /\ old \in {<<>>, files[to]}
           /\ Len(old) > 0 => old[Len(old)] = Len(written)
           /\ written' \in Seq(Nat) /\ Len(written') = Len(written) + 1
           /\ ~shared => \A s \in Times : files[s] # <<>> => s <= to
           /\ to <= clock
           /\ ~shared /\ kind # "splitted" => to = 0
<1>. USE LogFilesAssumption
<1>. DEFINE c == call[w]
            to == IF RollsOver(c) THEN Suffix(c) ELSE open
            base == IF RollsOver(c) THEN Opened(c) ELSE files
            id == Len(written) + 1
<1>1. c \in Calls /\ c # None /\ c.now <= clock /\ clock \in Nat /\ clock <= MaxTime
      /\ files \in [Times -> Seq(Nat)] /\ open \in Times \cup {None}
  BY DEF FilesInv, ShapeOK, Write
<1>2. c.len \in Nat /\ c.now \in Nat /\ c.now \in Times /\ 0 \in Times
  BY <1>1 DEF Calls, Times
<1>3. written' = Append(written, c.len) /\ open' = to /\ files' = [base EXCEPT ![to] = Append(@, id)]
  BY DEF Write
<1>4. written' \in Seq(Nat) /\ Len(written') = Len(written) + 1
  <2>1. written \in Seq(Nat)
    BY DEF FilesInv, ShapeOK
  <2>. QED
    BY <1>2, <1>3, <2>1
<1>5. ~shared => \A s \in Times : files[s] # <<>> =>
                   /\ s <= c.now
                   /\ open # None => s <= open
                   /\ kind # "splitted" => s = 0
  BY <1>1 DEF FilesInv, NoneLater
<1>6. ~shared /\ kind # "splitted" => open \in {0, None}
  BY DEF FilesInv, NoneLater
<1>7. open # None => open <= clock
  BY DEF FilesInv, ShapeOK
<1>8. CASE ~RollsOver(c)
  <2>1. open # None /\ to = open /\ base = files /\ files[open] \in Seq(Nat) /\ open \in Times
    BY <1>1, <1>8 DEF RollsOver
  <2>2. files' = [files EXCEPT ![open] = Append(files[open], id)]
    BY <1>1, <1>3, <2>1
  <2>3. files[open][Len(files[open])] = Len(written)
    BY <2>1 DEF FilesInv, NoGaps
  <2>. HIDE DEF c, to, base
  <2>. open \in Times /\ files[open] \in Seq(Nat)
    BY <2>1
  <2>. WITNESS open \in Times, files[open] \in Seq(Nat)
  <2>. QED
    BY <1>3, <1>4, <1>5, <1>6, <1>7, <2>1, <2>2, <2>3
<1>9. CASE RollsOver(c)
  <2>1. /\ to = Suffix(c) /\ to \in Times /\ to <= clock
        /\ ~shared => \A s \in Times : files[s] # <<>> => s <= to
        /\ kind # "splitted" => to = 0
    BY <1>1, <1>2, <1>5, <1>9 DEF Suffix
  <2>2. files' = [files EXCEPT ![to] = Append(<<>>, id)]
    <3>1. CASE kind = "infinite"
      <4>1. open = None /\ files[0] = <<>> /\ to = 0 /\ base = files
        BY <1>9, <2>1, <3>1 DEF RollsOver, Opened, FilesInv, NoGaps
      <4>. QED
        BY <1>1, <1>2, <1>3, <4>1
    <3>2. CASE kind # "infinite"
      <4>1. base = [files EXCEPT ![to] = <<>>]
        BY <1>9, <3>2 DEF Opened
      <4>. QED
        BY <1>1, <1>3, <2>1, <4>1
    <3>. QED
      BY <3>1, <3>2
  <2>3. <<>> \in Seq(Nat) /\ Len(<<>>) = 0
    OBVIOUS
  <2>. HIDE DEF c, to, base
  <2>. to \in Times /\ <<>> \in Seq(Nat)
    BY <2>1, <2>3
  <2>. WITNESS to \in Times, <<>> \in Seq(Nat)
  <2>4. Len(<<>>) > 0 => <<>>[Len(<<>>)] = Len(written)
    BY <2>3
  <2>5. <<>> \in {<<>>, files[to]}
    OBVIOUS
  <2>. QED
    BY <1>3, <1>4, <2>1, <2>2, <2>4, <2>5, Zenon
<1>. QED
  BY <1>8, <1>9

LEMMA WriteKeeps == ASSUME FilesInv, NEW w \in Writers, Write(w) PROVE FilesInv'
<1>. USE LogFilesAssumption
<1>. DEFINE n == Len(written)
            id == n + 1
<1>1. PICK to \in Times, old \in Seq(Nat) :
        /\ open' = to
        /\ files' = [files EXCEPT ![to] = Append(old, id)]
        /\ old \in {<<>>, files[to]}
        /\ Len(old) > 0 => old[Len(old)] = n
        /\ written' \in Seq(Nat) /\ Len(written') = id
        /\ ~shared => \A s \in Times : files[s] # <<>> => s <= to
        /\ to <= clock
        /\ ~shared /\ kind # "splitted" => to = 0
  BY WriteSteps
<1>2. /\ \A v \in Writers : call'[v] # None => call'[v] = call[v] /\ v # w
      /\ call' \in [Writers -> Calls \cup {None}]
  BY EndKeeps DEF Write
<1>3. /\ UNCHANGED <<kind, unit, shared, clock>> /\ call[w] # None
      /\ files \in [Times -> Seq(Nat)] /\ n \in Nat /\ to # None
  <2>1. written \in Seq(Nat)
    BY DEF FilesInv, ShapeOK
  <2>. QED
    BY <2>1, SMTT(40) DEF FilesInv, ShapeOK, Write, configVars, Times
(* The new file, and all others.                                            *)
<1>. DEFINE new == Append(old, id)
<1>4. /\ new \in Seq(Nat) /\ Len(new) = Len(old) + 1 /\ Len(old) \in Nat /\ new[Len(new)] = id
      /\ \A i \in 1..Len(old) : new[i] = old[i] /\ old[i] \in Nat
  BY <1>3
<1>5. files'[to] = new /\ \A s \in Times : s # to => files'[s] = files[s]
  BY <1>1, <1>3
<1>6. \A s \in Times : \A i \in 1..Len(files[s]) : files[s][i] <= n /\ files[s][i] \in Nat
  <2>1. \A s \in Times : files[s] \in Seq(Nat)
    BY <1>3
  <2>2. \A s \in Times : \A i \in 1..Len(files[s]) : files[s][i] \in Nat
    BY <2>1
  <2>. QED
    BY <2>2 DEF FilesInv, ShapeOK
<1>7. \A i \in 1..Len(old) : old[i] <= n /\ old = files[to]
  <2>1. Len(old) > 0 => old = files[to]
    BY <1>1
  <2>. QED
    BY <1>4, <1>6, <2>1
<1>8. \A i \in 1..Len(new) : i = Len(new) \/ i \in 1..Len(old)
  BY <1>4
<1>. HIDE DEF new, n, id
<1>20. id = n + 1
  BY DEF id
<1>9. ShapeOK'
  <2>1. files' \in [Times -> Seq(Nat)]
    BY <1>1, <1>3, <1>4 DEF new
  <2>2. ASSUME NEW s \in Times, NEW i \in 1..Len(files'[s]) PROVE files'[s][i] <= id
    <3>1. CASE s = to
      <4>1. CASE i = Len(new)
        BY <1>3, <1>4, <1>5, <1>20, <3>1, <4>1
      <4>2. CASE i \in 1..Len(old)
        <5>1. files'[s][i] = old[i] /\ old[i] \in Nat /\ old[i] <= n
          BY <1>4, <1>5, <1>7, <3>1, <4>2
        <5>. QED
          BY <1>3, <1>20, <5>1
      <4>. QED
        BY <1>5, <1>8, <3>1, <4>1, <4>2
    <3>2. CASE s # to
      BY <1>3, <1>5, <1>6, <1>20, <3>2
    <3>. QED
      BY <3>1, <3>2
  <2>3. \A v \in Writers : call'[v] # None => call'[v].now <= clock
    BY <1>2 DEF FilesInv, ShapeOK
  <2>. QED
    BY <1>1, <1>2, <1>3, <2>1, <2>2, <2>3 DEF FilesInv, ShapeOK
<1>10. NoGaps'
  <2>1. ASSUME NEW s \in Times, NEW i \in 1..(Len(files'[s]) - 1)
        PROVE  files'[s][i + 1] = files'[s][i] + 1
    <3>1. CASE s # to
      BY <1>5, <3>1 DEF FilesInv, NoGaps
    <3>2. CASE s = to
      <4>1. i \in 1..Len(old) /\ files'[s] = new
        BY <1>4, <1>5, <3>2
      <4>2. old = files[to] /\ new[i] = old[i]
        BY <1>4, <1>7, <4>1
      <4>3. CASE i = Len(old)
        BY <1>1, <1>4, <1>20, <4>1, <4>2, <4>3, SMTT(40)
      <4>4. CASE i < Len(old)
        <5>1. i \in 1..(Len(files[to]) - 1) /\ i + 1 \in 1..Len(old)
          <6>1. i + 1 \in 1..Len(old) /\ i \in 1..(Len(old) - 1)
            <7>1. Len(old) \in Int /\ i \in Int /\ 1 <= i
              BY <1>4, <4>1
            <7>. QED
              BY <4>4, <7>1
          <6>. QED
            BY <4>2, <6>1
        <5>2. old[i + 1] = old[i] + 1
          BY <4>2, <5>1 DEF FilesInv, NoGaps
        <5>. QED
          BY <1>4, <4>1, <4>2, <5>1, <5>2
      <4>. QED
        BY <1>4, <4>1, <4>3, <4>4
    <3>. QED
      BY <3>1, <3>2
  <2>. QED
    BY <1>1, <1>3, <1>4, <1>5, <2>1, SMTT(40) DEF NoGaps
<1>11. ASSUME NEW s \in Times, files'[s] # <<>> PROVE s = to \/ files[s] # <<>>
  BY <1>5, <1>11
<1>12. NoneLater'
  <2>. SUFFICES ASSUME ~shared PROVE NoneLater'
    BY <1>3 DEF NoneLater
  <2>1. \A v \in Writers : call'[v] = None
    BY <1>2, <1>3 DEF FilesInv, NoneLater
  <2>2. \A s \in Times : files'[s] # <<>> => s <= clock /\ s <= to
    <3>. SUFFICES ASSUME NEW s \in Times, files'[s] # <<>> PROVE s <= clock /\ s <= to
      OBVIOUS
    <3>1. CASE s = to
      BY <1>1, <3>1 DEF Times
    <3>2. CASE files[s] # <<>>
      BY <1>1, <3>2 DEF FilesInv, NoneLater
    <3>. QED
      BY <1>11, <3>1, <3>2
  <2>3. kind # "splitted" => \A s \in Times : files'[s] # <<>> => s = 0
    BY <1>1, <1>11 DEF FilesInv, NoneLater
  <2>. QED
    BY <1>1, <1>3, <2>1, <2>2, <2>3 DEF NoneLater
<1>13. FilesInOrder'
  <2>. SUFFICES ASSUME ~shared, NEW s \in Times, NEW t \in Times, s < t,
                       NEW i \in 1..Len(files'[s]), NEW j \in 1..Len(files'[t])
                PROVE  files'[s][i] < files'[t][j]
    <3>1. \A u \in Times : DOMAIN files'[u] = 1..Len(files'[u])
      BY <1>1, <1>3, <1>4, <1>5
    <3>. QED
      BY <1>3, <3>1 DEF FilesInOrder
  <2>1. t <= to
    <3>1. files'[t] # <<>>
      OBVIOUS
    <3>. QED
      BY <1>1, <1>11, <3>1 DEF Times
  <2>2. s # to /\ files'[s] = files[s] /\ files[s][i] \in Nat /\ files[s][i] <= n
    BY <1>5, <1>6, <2>1 DEF Times
  <2>3. \A k \in 1..Len(files[t]) : files[s][i] < files[t][k]
    <3>1. \A u \in Times : DOMAIN files[u] = 1..Len(files[u])
      BY <1>3
    <3>. QED
      BY <2>2, <3>1 DEF FilesInv, FilesInOrder
  <2>4. CASE t # to
    BY <1>5, <2>2, <2>3, <2>4
  <2>5. CASE t = to /\ j = Len(new)
    BY <1>3, <1>4, <1>5, <1>20, <2>2, <2>5, SMTT(40)
  <2>6. CASE t = to /\ j \in 1..Len(old)
    BY <1>4, <1>5, <1>7, <2>2, <2>3, <2>6
  <2>. QED
    BY <1>5, <1>8, <2>4, <2>5, <2>6
<1>. QED
  BY <1>9, <1>10, <1>12, <1>13 DEF FilesInv

LEMMA FilesInvariant == Spec => []FilesInv
<1>1. FilesInv /\ [Next]_vars => FilesInv'
  <2>1. FilesInv /\ UNCHANGED vars => FilesInv'
    BY DEF FilesInv, ShapeOK, NoGaps, NoneLater, FilesInOrder, vars, configVars, fileVars
  <2>. QED
    BY <2>1, TickKeeps, BeginKeeps, WriteKeeps, DropKeeps DEF Next
<1>. QED
  BY <1>1, FilesInit, PTL DEF Spec

(* Through one logger what is in a file of a later suffix was written later.*)
THEOREM SplittedInOrder == Spec => []FilesInOrder
BY FilesInvariant, PTL DEF FilesInv

(* A file holds messages that were written one right after the other.       *)
THEOREM FilesWithoutGaps ==
  Spec => [](\A s \in Times :
               \A i \in 1..(Len(files[s]) - 1) : files[s][i + 1] = files[s][i] + 1)
<1>1. FilesInv => \A s \in Times :
                    \A i \in 1..(Len(files[s]) - 1) : files[s][i + 1] = files[s][i] + 1
  BY DEF FilesInv, NoGaps
<1>. QED
  BY <1>1, FilesInvariant, PTL

-----------------------------------------------------------------------------
(* Sums over a file *)

(* Induction, for a set: the theorem of the library is about an operator.   *)
LEMMA Induction ==
  ASSUME NEW S, 0 \in S, \A n \in Nat : n \in S => n + 1 \in S
  PROVE  Nat \subseteq S
<1>. DEFINE T == Nat \ S
            R == {ss \in Nat \X Nat : ss[1] < ss[2]}
<1>. SUFFICES ASSUME T # {} PROVE FALSE
  OBVIOUS
<1>1. IsWellFoundedOn(R, Nat)
  BY NatLessThanWellFounded DEF OpToRel
<1>2. PICK x \in T : \A y \in T : ~ (<<y, x>> \in R)
  <2>1. T \subseteq Nat
     BY DEF T
  <2>. HIDE DEF T, R
  <2>. QED
    BY <1>1, <2>1, WFMin
<1>3. \A y \in T : ~ (y < x)
  BY <1>2
<1>4. x # 0 /\ x - 1 \in Nat
  OBVIOUS
<1>5. x - 1 \in S
  BY <1>3, <1>4
<1>. QED
  BY <1>4, <1>5

(* What FoldLeft computes: g sums up, for every set of places of u, the     *)
(* lengths w of the messages u there.                                       *)
IsFold(g, w, u, D) ==
  g = [s \in SUBSET D |-> IF s = {} THEN 0 ELSE g[s \ {Max(s)}] + w[u[Max(s)]]]
Fold(w, u, D) == CHOOSE g : IsFold(g, w, u, D)
Sum(w, u, m, k) == Fold(w, u, 1..m)[1..k]
TotalOf(w, u) == Sum(w, u, Len(u), Len(u))

LEMMA TotalIs ==
  ASSUME NEW s, files[s] \in Seq(Nat)
  PROVE  Total(s) = TotalOf(written, files[s])
<1>1. Total(s) = Fold(written, files[s], DOMAIN files[s])[DOMAIN files[s]]
  BY DEF Total, FoldLeft, MapThenFoldSet, Fold, IsFold
<1>2. DOMAIN files[s] = 1..Len(files[s])
  OBVIOUS
<1>. QED
  BY <1>1, <1>2, Zenon DEF TotalOf, Sum

LEMMA MaxIs ==
  ASSUME NEW n \in Nat, NEW s \in SUBSET (1..n), n \in s
  PROVE  Max(s) = n
<1>1. \A y \in s : n >= y
  OBVIOUS
<1>2. \A x \in s : (\A y \in s : x >= y) => x = n
  OBVIOUS
<1>. QED
  BY <1>1, <1>2 DEF Max

(* There is such a g: what is in it for the places up to n gives it for     *)
(* those up to n + 1.                                                       *)
LEMMA FoldExists ==
  ASSUME NEW w, NEW u, NEW m \in Nat
  PROVE  \E g : IsFold(g, w, u, 1..m)
<1>. DEFINE S == {n \in Nat : \E g : IsFold(g, w, u, 1..n)}
<1>1. 0 \in S
  <2>1. 1..0 = {} /\ SUBSET {} = {{}}
    OBVIOUS
  <2>. DEFINE g == [s \in SUBSET {} |-> 0]
  <2>2. g = [s \in SUBSET {} |-> IF s = {} THEN 0 ELSE g[s \ {Max(s)}] + w[u[Max(s)]]]
    <3>1. \A s \in SUBSET {} : s = {}
      OBVIOUS
    <3>. QED
      BY <3>1
  <2>3. IsFold(g, w, u, 1..0)
    BY <2>1, <2>2, Zenon DEF IsFold
  <2>. QED
    BY <2>3
<1>2. ASSUME NEW n \in Nat, n \in S PROVE n + 1 \in S
  <2>1. PICK g : IsFold(g, w, u, 1..n)
    BY <1>2
  <2>2. \A s \in SUBSET (1..n) : g[s] = IF s = {} THEN 0 ELSE g[s \ {Max(s)}] + w[u[Max(s)]]
    <3>. DEFINE G(s) == IF s = {} THEN 0 ELSE g[s \ {Max(s)}] + w[u[Max(s)]]
    <3>1. g = [s \in SUBSET (1..n) |-> G(s)]
      BY <2>1, Zenon DEF IsFold
    <3>. HIDE DEF G
    <3>2. \A s \in SUBSET (1..n) : g[s] = G(s)
      BY <3>1
    <3>. QED
      BY <3>2, Zenon DEF G
  <2>. DEFINE D == 1..(n + 1)
              h == [s \in SUBSET D |->
                      IF n + 1 \in s THEN g[s \ {n + 1}] + w[u[n + 1]] ELSE g[s]]
              H(s) == IF s = {} THEN 0 ELSE h[s \ {Max(s)}] + w[u[Max(s)]]
  <2>3. ASSUME NEW s \in SUBSET D PROVE h[s] = H(s)
    <3>1. CASE n + 1 \in s
      <4>1. Max(s) = n + 1
        BY <3>1, MaxIs
      <4>2. s \ {n + 1} \in SUBSET D /\ n + 1 \notin s \ {n + 1} /\ s # {}
        BY <3>1
      <4>3. h[s \ {n + 1}] = g[s \ {n + 1}] /\ h[s] = g[s \ {n + 1}] + w[u[n + 1]]
        BY <3>1, <4>2
      <4>. HIDE DEF h
      <4>. QED
        BY <4>1, <4>2, <4>3, Zenon
    <3>2. CASE n + 1 \notin s
      <4>0. ASSUME NEW x \in s PROVE x \in 1..n
        BY <3>2
      <4>1. s \in SUBSET (1..n) /\ s \ {Max(s)} \in SUBSET D /\ n + 1 \notin s \ {Max(s)}
        BY <3>2, <4>0, Zenon
      <4>2. h[s] = g[s] /\ h[s \ {Max(s)}] = g[s \ {Max(s)}]
        BY <3>2, <4>1
      <4>. HIDE DEF h
      <4>. QED
        BY <2>2, <4>1, <4>2, Zenon
    <3>. QED
      BY <3>1, <3>2
  <2>4. h = [s \in SUBSET D |-> h[s]]
    OBVIOUS
  <2>. HIDE DEF h
  <2>5. h = [s \in SUBSET D |-> H(s)]
    <3>1. [s \in SUBSET D |-> h[s]] = [s \in SUBSET D |-> H(s)]
      BY <2>3, Zenon
    <3>. QED
      BY <2>4, <3>1, Zenon
  <2>6. IsFold(h, w, u, 1..(n + 1))
    BY <2>5, Zenon DEF IsFold
  <2>. QED
    BY <2>6
<1>3. Nat \subseteq S
  <2>. HIDE DEF S
  <2>. QED
    BY <1>1, <1>2, Induction
<1>. QED
  BY <1>3

(* The sums over the beginnings of u.                                       *)
LEMMA FoldSteps ==
  ASSUME NEW w, NEW u, NEW m \in Nat
  PROVE  /\ Sum(w, u, m, 0) = 0
         /\ \A k \in 1..m : Sum(w, u, m, k) = Sum(w, u, m, k - 1) + w[u[k]]
<1>. DEFINE F == Fold(w, u, 1..m)
            G(s) == IF s = {} THEN 0 ELSE F[s \ {Max(s)}] + w[u[Max(s)]]
<1>1. IsFold(F, w, u, 1..m)
  BY FoldExists, Zenon DEF Fold
<1>2. F = [s \in SUBSET (1..m) |-> G(s)]
  <2>. HIDE DEF F
  <2>. QED
    BY <1>1, Zenon DEF IsFold
<1>. HIDE DEF F
<1>3. \A s \in SUBSET (1..m) : F[s] = G(s)
  <2>. HIDE DEF G
  <2>. QED
    BY <1>2
<1>4. 1..0 = {}
  OBVIOUS
<1>5. F[1..0] = 0
  BY <1>3, <1>4, Zenon
<1>6. ASSUME NEW k \in 1..m PROVE F[1..k] = F[1..(k - 1)] + w[u[k]]
  <2>1. Max(1..k) = k
    BY MaxIs
  <2>2. 1..k \in SUBSET (1..m) /\ 1..k # {} /\ (1..k) \ {k} = 1..(k - 1)
    OBVIOUS
  <2>. QED
    BY <1>3, <2>1, <2>2, Zenon
<1>. QED
  BY <1>5, <1>6 DEF F, Sum

(* The first k lengths are the same, and so is their sum.                   *)
SameLengths(w, u, v, x, k) == \A i \in 1..k : w[u[i]] = v[x[i]]

LEMMA SumsAgree ==
  ASSUME NEW w, NEW u, NEW v, NEW x, NEW m \in Nat, NEW n \in Nat, NEW k \in Nat,
         k <= m, k <= n, SameLengths(w, u, v, x, k)
  PROVE  Sum(w, u, m, k) = Sum(v, x, n, k)
<1>. DEFINE S == {i \in Nat : i <= k => Sum(w, u, m, i) = Sum(v, x, n, i)}
<1>1. /\ Sum(w, u, m, 0) = 0 /\ \A i \in 1..m : Sum(w, u, m, i) = Sum(w, u, m, i - 1) + w[u[i]]
      /\ Sum(v, x, n, 0) = 0 /\ \A i \in 1..n : Sum(v, x, n, i) = Sum(v, x, n, i - 1) + v[x[i]]
  BY FoldSteps
<1>2. 0 \in S
  BY <1>1
<1>3. ASSUME NEW i \in Nat, i \in S PROVE i + 1 \in S
  <2>. SUFFICES ASSUME i + 1 <= k PROVE Sum(w, u, m, i + 1) = Sum(v, x, n, i + 1)
    OBVIOUS
  <2>1. PICK j \in 1..k : j = i + 1
    OBVIOUS
  <2>2. j \in 1..m /\ j \in 1..n /\ j - 1 = i /\ Sum(w, u, m, i) = Sum(v, x, n, i)
    BY <1>3, <2>1
  <2>3. Sum(w, u, m, j) = Sum(w, u, m, j - 1) + w[u[j]] /\ Sum(v, x, n, j) = Sum(v, x, n, j - 1) + v[x[j]]
    BY <1>1, <2>2
  <2>4. w[u[j]] = v[x[j]]
    BY <2>1 DEF SameLengths
  <2>. QED
    BY <2>1, <2>2, <2>3, <2>4, Zenon
<1>4. Nat \subseteq S
  <2>. HIDE DEF S
  <2>. QED
    BY <1>2, <1>3, Induction
<1>. QED
  BY <1>4

LEMMA TotalOfNone == ASSUME NEW w PROVE TotalOf(w, <<>>) = 0
<1>1. Len(<<>>) = 0 /\ 0 \in Nat
  OBVIOUS
<1>2. Sum(w, <<>>, 0, 0) = 0
  BY FoldSteps
<1>. QED
  BY <1>1, <1>2, Zenon DEF TotalOf

(* What is written later does not count.                                    *)
LEMMA TotalOfSame ==
  ASSUME NEW w, NEW v, NEW u \in Seq(Nat), \A i \in 1..Len(u) : w[u[i]] = v[u[i]]
  PROVE  TotalOf(w, u) = TotalOf(v, u)
<1>. DEFINE n == Len(u)
<1>1. n \in Nat /\ n <= n /\ SameLengths(w, u, v, u, n)
  BY DEF SameLengths
<1>. HIDE DEF n
<1>2. Sum(w, u, n, n) = Sum(v, u, n, n)
  BY <1>1, SumsAgree
<1>. QED
  BY <1>2, Zenon DEF TotalOf, n

(* A message more adds its length.                                          *)
LEMMA TotalOfAppend ==
  ASSUME NEW w, NEW u \in Seq(Nat), NEW x \in Nat
  PROVE  TotalOf(w, Append(u, x)) = TotalOf(w, u) + w[x]
<1>. DEFINE y == Append(u, x)
            n == Len(u)
            m == n + 1
<1>1. n \in Nat /\ m \in Nat /\ Len(y) = m /\ y[m] = x /\ \A i \in 1..n : y[i] = u[i]
  OBVIOUS
<1>2. m \in 1..m /\ m - 1 = n /\ n <= m /\ n <= n
  OBVIOUS
<1>. HIDE DEF y, n, m
<1>3. Sum(w, y, m, m) = Sum(w, y, m, m - 1) + w[y[m]]
  <2>1. m \in Nat
    BY <1>1
  <2>. QED
    BY <1>2, <2>1, FoldSteps
<1>4. SameLengths(w, y, w, u, n)
  BY <1>1 DEF SameLengths
<1>5. Sum(w, y, m, n) = Sum(w, u, n, n)
  BY <1>1, <1>2, <1>4, SumsAgree
<1>. QED
  BY <1>1, <1>2, <1>3, <1>5, Zenon DEF TotalOf, y, n

-----------------------------------------------------------------------------
(* Sizes of files *)

(* m_file_size is the length of the open file, a file that rolls over is    *)
(* not longer than Limit, but for a single message, and what is in a file   *)
(* are numbers of messages; an infinite file is empty until it is opened.   *)
SizesInv ==
  /\ written \in Seq(Lengths) /\ Len(written) <= MaxWrites
  /\ \A s \in Times : \A i \in 1..Len(files[s]) : files[s][i] \in 1..Len(written)
  /\ \A w \in Writers : call[w] # None => call[w].len \in Lengths
  /\ size \in Nat
  /\ open # None => size = TotalOf(written, files[open])
  /\ open = None /\ kind = "infinite" => size = 0
  /\ kind # "infinite" =>
       \A s \in Times : Len(files[s]) > 1 => TotalOf(written, files[s]) <= Limit

LEMMA SizesInit == Init => SizesInv
<1>. SUFFICES ASSUME Init PROVE SizesInv
  OBVIOUS
<1>1. <<>> \in Seq(Lengths) /\ Len(<<>>) = 0
  OBVIOUS
<1>2. \A s \in Times : Len(files[s]) = 0
  BY <1>1 DEF Init
<1>3. written = <<>> /\ size = 0 /\ open = None /\ \A w \in Writers : call[w] = None
  BY DEF Init
<1>. QED
  BY <1>1, <1>2, <1>3, LogFilesAssumption DEF SizesInv

LEMMA TickSizes == SizesInv /\ Tick => SizesInv'
BY DEF SizesInv, Tick, configVars, fileVars

LEMMA BeginSizes ==
  ASSUME FilesInv, SizesInv, NEW w \in Writers, Begin(w)
  PROVE  SizesInv'
<1>1. PICK n \in Lengths, due \in TimeOut :
        call' = [call EXCEPT ![w] = [len |-> n, now |-> clock, due |-> due]]
  BY DEF Begin
<1>2. ASSUME NEW v \in Writers, call'[v] # None PROVE call'[v].len \in Lengths
  <2>1. call'[v] = IF v = w THEN [len |-> n, now |-> clock, due |-> due] ELSE call[v]
    BY <1>1 DEF FilesInv, ShapeOK
  <2>. QED
    BY <1>2, <2>1 DEF SizesInv
<1>. QED
  BY <1>2 DEF SizesInv, Begin, configVars, fileVars

(* A message more does not change what the files add up to.                 *)
LEMMA TotalsKeep ==
  ASSUME FilesInv, SizesInv, NEW n \in Lengths, written' = Append(written, n)
  PROVE  /\ written' \in Seq(Lengths) /\ Len(written') = Len(written) + 1 /\ Len(written) \in Nat
         /\ written'[Len(written) + 1] = n
         /\ \A s \in Times : TotalOf(written', files[s]) = TotalOf(written, files[s])
<1>1. /\ written' \in Seq(Lengths) /\ Len(written') = Len(written) + 1 /\ Len(written) \in Nat
      /\ written'[Len(written) + 1] = n
      /\ \A i \in 1..Len(written) : written'[i] = written[i]
  BY DEF SizesInv
<1>2. ASSUME NEW s \in Times PROVE TotalOf(written', files[s]) = TotalOf(written, files[s])
  <2>1. files[s] \in Seq(Nat)
    BY DEF FilesInv, ShapeOK
  <2>2. \A i \in 1..Len(files[s]) : written'[files[s][i]] = written[files[s][i]]
    BY <1>1 DEF SizesInv
  <2>. QED
    BY <2>1, <2>2, TotalOfSame
<1>. QED
  BY <1>1, <1>2

LEMMA DropSizes ==
  ASSUME FilesInv, SizesInv, NEW w \in Writers, Drop(w)
  PROVE  SizesInv'
<1>1. \A v \in Writers : call'[v] # None => call'[v] = call[v]
  BY EndKeeps DEF Drop
<1>2. call[w].len \in Lengths /\ written' = Append(written, call[w].len)
  BY DEF SizesInv, Drop
<1>3. /\ written' \in Seq(Lengths) /\ Len(written') = Len(written) + 1 /\ Len(written) \in Nat
      /\ \A s \in Times : TotalOf(written', files[s]) = TotalOf(written, files[s])
  BY <1>2, TotalsKeep
<1>4. /\ UNCHANGED <<kind, files>> /\ open' = None /\ Len(written) < MaxWrites
      /\ size' \in {size, 0} /\ (kind = "infinite" => size' = size /\ open = None)
  BY DEF Drop, configVars, RollsOver
<1>5. Len(written') <= MaxWrites
  BY <1>3, <1>4, LogFilesAssumption
<1>6. \A s \in Times : \A i \in 1..Len(files[s]) : files[s][i] \in 1..Len(written')
  BY <1>3 DEF SizesInv
<1>7. kind # "infinite" =>
        \A s \in Times : Len(files[s]) > 1 => TotalOf(written', files[s]) <= Limit
  BY <1>3 DEF SizesInv
<1>8. \A v \in Writers : call'[v] # None => call'[v].len \in Lengths
  BY <1>1 DEF SizesInv
<1>9. size' \in Nat /\ (kind = "infinite" => size' = 0)
  BY <1>4 DEF SizesInv
<1>. QED
  BY <1>3, <1>4, <1>5, <1>6, <1>7, <1>8, <1>9 DEF SizesInv

(* What is in the file before the message, and that the message still       *)
(* belongs there.                                                           *)
LEMMA WriteAdds ==
  ASSUME FilesInv, SizesInv, NEW w \in Writers, Write(w)
  PROVE  \E to \in Times, old \in Seq(Nat), total \in Nat :
           /\ open' = to
           /\ files' = [files EXCEPT ![to] = Append(old, Len(written) + 1)]
           /\ old \in {<<>>, files[to]}
           /\ total = TotalOf(written, old)
           /\ size' = total + call[w].len
           /\ kind # "infinite" /\ old # <<>> => total + call[w].len <= Limit
<1>. USE LogFilesAssumption
<1>. DEFINE c == call[w]
            to == IF RollsOver(c) THEN Suffix(c) ELSE open
            base == IF RollsOver(c) THEN Opened(c) ELSE files
            id == Len(written) + 1
<1>1. c \in Calls /\ c # None /\ c.now <= clock /\ clock \in Nat /\ clock <= MaxTime
      /\ files \in [Times -> Seq(Nat)] /\ open \in Times \cup {None}
  BY DEF FilesInv, ShapeOK, Write
<1>2. c.len \in Nat /\ c.now \in Times /\ 0 \in Times
  BY <1>1 DEF Calls, Times
<1>3. /\ open' = to /\ files' = [base EXCEPT ![to] = Append(@, id)]
      /\ size' = (IF RollsOver(c) /\ kind # "infinite" THEN 0 ELSE size) + c.len
  BY DEF Write
<1>4. size \in Nat
  BY DEF SizesInv
<1>5. CASE ~RollsOver(c)
  <2>1. /\ open # None /\ to = open /\ base = files /\ files[open] \in Seq(Nat) /\ open \in Times
        /\ kind # "infinite" => size + c.len <= Limit
    BY <1>1, <1>2, <1>4, <1>5 DEF RollsOver
  <2>2. files' = [files EXCEPT ![open] = Append(files[open], id)] /\ size' = size + c.len
    BY <1>1, <1>3, <1>5, <2>1
  <2>3. size = TotalOf(written, files[open])
    BY <2>1 DEF SizesInv
  <2>. HIDE DEF c, to, base
  <2>. open \in Times /\ files[open] \in Seq(Nat) /\ size \in Nat
    BY <1>4, <2>1
  <2>. WITNESS open \in Times, files[open] \in Seq(Nat), size \in Nat
  <2>. QED
    BY <1>3, <2>1, <2>2, <2>3 DEF c
<1>6. CASE RollsOver(c)
  <2>1. to = Suffix(c) /\ to \in Times
    BY <1>2, <1>6 DEF Suffix
  <2>2. files' = [files EXCEPT ![to] = Append(<<>>, id)]
    <3>1. CASE kind = "infinite"
      <4>1. open = None /\ files[0] = <<>> /\ to = 0 /\ base = files
        BY <1>6, <2>1, <3>1 DEF RollsOver, Opened, FilesInv, NoGaps, Suffix
      <4>. QED
        BY <1>1, <1>2, <1>3, <4>1
    <3>2. CASE kind # "infinite"
      <4>1. base = [files EXCEPT ![to] = <<>>]
        BY <1>6, <3>2 DEF Opened
      <4>. QED
        BY <1>1, <1>3, <2>1, <4>1
    <3>. QED
      BY <3>1, <3>2
  <2>3. size' = 0 + c.len
    <3>1. CASE kind = "infinite"
      BY <1>3, <1>6, <3>1 DEF SizesInv, RollsOver
    <3>2. CASE kind # "infinite"
      BY <1>3, <1>6, <3>2
    <3>. QED
      BY <3>1, <3>2
  <2>4. TotalOf(written, <<>>) = 0
    BY TotalOfNone
  <2>. HIDE DEF c, to, base, id
  <2>. to \in Times /\ <<>> \in Seq(Nat) /\ 0 \in Nat
    BY <2>1
  <2>. WITNESS to \in Times, <<>> \in Seq(Nat), 0 \in Nat
  <2>. QED
    BY <1>3, <2>2, <2>3, <2>4, Zenon DEF c, id
<1>. QED
  BY <1>5, <1>6

LEMMA WriteSizes ==
  ASSUME FilesInv, SizesInv, NEW w \in Writers, Write(w)
  PROVE  SizesInv'
<1>. DEFINE n == Len(written)
            id == n + 1
            len == call[w].len
<1>1. PICK to \in Times, old \in Seq(Nat), total \in Nat :
        /\ open' = to
        /\ files' = [files EXCEPT ![to] = Append(old, id)]
        /\ old \in {<<>>, files[to]}
        /\ total = TotalOf(written, old)
        /\ size' = total + len
        /\ kind # "infinite" /\ old # <<>> => total + len <= Limit
  BY WriteAdds
<1>2. /\ len \in Lengths /\ len \in Nat /\ written' = Append(written, len)
      /\ kind' = kind /\ n < MaxWrites /\ to # None
  <2>1. to # None
    BY LogFilesAssumption DEF Times
  <2>2. call[w] # None /\ written' = Append(written, len) /\ kind' = kind /\ n < MaxWrites
    BY DEF Write, configVars
  <2>3. len \in Lengths
    BY <2>2 DEF SizesInv
  <2>4. len \in Nat
    BY <2>3, LogFilesAssumption
  <2>. QED
    BY <2>1, <2>2, <2>3, <2>4
<1>3. /\ written' \in Seq(Lengths) /\ Len(written') = id /\ n \in Nat /\ id \in Nat
      /\ written'[id] = len
      /\ \A s \in Times : TotalOf(written', files[s]) = TotalOf(written, files[s])
  BY <1>2, TotalsKeep
<1>4. TotalOf(written', old) = total
  <2>1. TotalOf(written', <<>>) = 0 /\ TotalOf(written, <<>>) = 0
    BY TotalOfNone
  <2>. HIDE DEF n, id, len
  <2>. QED
    BY <1>1, <1>3, <2>1
<1>. HIDE DEF n, id, len
<1>5. files \in [Times -> Seq(Nat)]
  BY DEF FilesInv, ShapeOK
<1>6. files'[to] = Append(old, id) /\ \A s \in Times : s # to => files'[s] = files[s]
  BY <1>1, <1>5
<1>7. TotalOf(written', Append(old, id)) = total + len
  BY <1>3, <1>4, TotalOfAppend
<1>8. /\ Len(Append(old, id)) = Len(old) + 1 /\ Len(old) \in Nat
      /\ (Len(old) > 0 <=> old # <<>>)
      /\ \A i \in 1..(Len(old) + 1) : Append(old, id)[i] = IF i = Len(old) + 1 THEN id ELSE old[i]
  BY <1>3
<1>9. \A s \in Times : \A i \in 1..Len(files'[s]) : files'[s][i] \in 1..Len(written')
  <2>1. \A s \in Times : \A i \in 1..Len(files[s]) : files[s][i] \in 1..n
    BY DEF SizesInv, n
  <2>2. \A i \in 1..Len(old) : old[i] \in 1..n
    <3>1. CASE old = <<>>
      BY <3>1
    <3>2. CASE old = files[to]
      BY <2>1, <3>2
    <3>. QED
      BY <1>1, <3>1, <3>2
  <2>3. id = n + 1
    BY DEF id
  <2>4. ASSUME NEW s \in Times, NEW i \in 1..Len(files'[s]) PROVE files'[s][i] \in 1..id
    <3>1. CASE s = to
      <4>1. i \in 1..(Len(old) + 1)
        BY <1>6, <1>8, <3>1
      <4>2. CASE i = Len(old) + 1
        BY <1>3, <1>6, <1>8, <2>3, <3>1, <4>1, <4>2
      <4>3. CASE i # Len(old) + 1
        <5>1. i \in 1..Len(old)
          BY <1>8, <4>1, <4>3
        <5>. QED
          BY <1>3, <1>6, <1>8, <2>2, <2>3, <3>1, <4>1, <4>3, <5>1
      <4>. QED
        BY <4>2, <4>3
    <3>2. CASE s # to
      <4>1. files'[s][i] \in 1..n
        BY <1>6, <2>1, <3>2
      <4>. QED
        BY <1>3, <2>3, <4>1
    <3>. QED
      BY <3>1, <3>2
  <2>. QED
    BY <1>3, <2>4
<1>10. ASSUME kind # "infinite", NEW s \in Times, Len(files'[s]) > 1
       PROVE  TotalOf(written', files'[s]) <= Limit
  <2>1. CASE s = to
    <3>1. old # <<>>
      BY <1>6, <1>8, <1>10, <2>1
    <3>2. total + len <= Limit
      BY <1>1, <1>10, <3>1
    <3>. QED
      BY <1>6, <1>7, <2>1, <3>2
  <2>2. CASE s # to
    <3>1. files'[s] = files[s] /\ TotalOf(written', files[s]) = TotalOf(written, files[s])
      BY <1>3, <1>6, <2>2
    <3>2. TotalOf(written, files[s]) <= Limit
      BY <1>10, <3>1 DEF SizesInv
    <3>. QED
      BY <3>1, <3>2
  <2>. QED
    BY <2>1, <2>2
<1>11. \A v \in Writers : call'[v] # None => call'[v].len \in Lengths
  <2>1. \A v \in Writers : call'[v] # None => call'[v] = call[v]
    BY EndKeeps DEF Write
  <2>. QED
    BY <2>1 DEF SizesInv
<1>12. Len(written') <= MaxWrites
  BY <1>2, <1>3, LogFilesAssumption DEF id
<1>13. size' \in Nat /\ size' = TotalOf(written', files'[open']) /\ open' # None
  <2>1. size' \in Nat
    BY <1>1, <1>2
  <2>2. open' = to /\ size' = total + len /\ files'[to] = Append(old, id)
    BY <1>1, <1>6
  <2>. QED
    BY <1>2, <1>7, <2>1, <2>2, Zenon
<1>. QED
  BY <1>2, <1>3, <1>9, <1>10, <1>11, <1>12, <1>13 DEF SizesInv

LEMMA SizesInvariant == Spec => [](FilesInv /\ SizesInv)
<1>1. FilesInv /\ SizesInv /\ [Next]_vars => SizesInv'
  <2>1. SizesInv /\ UNCHANGED vars => SizesInv'
    BY DEF SizesInv, vars, configVars, fileVars
  <2>. QED
    BY <2>1, TickSizes, BeginSizes, WriteSizes, DropSizes DEF Next
<1>. QED
  BY <1>1, FilesInvariant, SizesInit, PTL DEF Spec

(* The types, and m_file_size is the length of the open file.               *)
THEOREM SizeOfOpenFile == Spec => []LogTypeOK
<1>1. ASSUME FilesInv, SizesInv PROVE LogTypeOK
  <2>1. clock \in Times /\ files \in [Times -> Seq(Nat)] /\ open \in Times \cup {None}
    BY <1>1, LogFilesAssumption DEF FilesInv, ShapeOK, Times
  <2>2. written \in Seq(Lengths) /\ Len(written) <= MaxWrites
    BY <1>1 DEF SizesInv
  <2>3. \A s \in Times : DOMAIN files[s] = 1..Len(files[s])
    BY <2>1
  <2>4. DOMAIN written = 1..Len(written)
    BY <2>2
  <2>5. \A s \in Times : \A i \in DOMAIN files[s] : files[s][i] \in DOMAIN written
    BY <1>1, <2>3, <2>4 DEF SizesInv
  <2>6. ASSUME open # None PROVE size = Total(open)
    <3>1. open \in Times /\ files[open] \in Seq(Nat)
      BY <2>1, <2>6
    <3>2. Total(open) = TotalOf(written, files[open])
      BY <3>1, TotalIs
    <3>. QED
      BY <1>1, <2>6, <3>2 DEF SizesInv
  <2>7. ASSUME NEW w \in Writers, call[w] # None
        PROVE  call[w] \in [len : Lengths, now : 0..clock, due : BOOLEAN]
    <3>1. call[w] \in Calls /\ call[w].now <= clock /\ call[w].len \in Lengths /\ clock \in Nat
      BY <1>1, <2>7 DEF FilesInv, ShapeOK, SizesInv
    <3>. QED
      BY <3>1 DEF Calls
  <2>. QED
    BY <2>1, <2>2, <2>5, <2>6, <2>7 DEF LogTypeOK
<1>. QED
  BY <1>1, SizesInvariant, PTL

(* A file holds messages that were written one right after the other, and,  *)
(* if it rolls over, no more of them than Limit allows.                     *)
THEOREM FilesKeepTheLimit == Spec => []FilesAreSegments
<1>1. ASSUME FilesInv, SizesInv PROVE FilesAreSegments
  <2>1. \A s \in Times : files[s] \in Seq(Nat)
    BY <1>1 DEF FilesInv, ShapeOK
  <2>2. \A s \in Times : Total(s) = TotalOf(written, files[s])
    BY <2>1, TotalIs
  <2>. QED
    BY <1>1, <2>2 DEF FilesAreSegments, FilesInv, NoGaps, SizesInv
<1>. QED
  BY <1>1, SizesInvariant, PTL

=============================================================================
