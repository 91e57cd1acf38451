--------------------------- MODULE DispatchProofs ---------------------------
(***************************************************************************)
(* What holds of Loggers and Dispatch for every number of threads,         *)
(* loggers, appenders, functions and types of messages.                    *)
(***************************************************************************)
EXTENDS Dispatch, FiniteSetTheorems, TLAPS

-----------------------------------------------------------------------------
(* Loggers *)

Places == {"idle", "find", "lock", "insert", "on", "level", "top", "change", "wait", "write"}

AtOK == at \in [Threads -> [in : Places, of : Names \cup {None}]]

MapOK == instances \subseteq Names /\ lock \in Threads \cup {None}

ConfOK == conf \in [Names -> [on : BOOLEAN, level : 0..LevelNone, top : 0..LevelNone]]

ListsOK ==
  /\ list \in [Names -> Seq(Appenders)]
  /\ listLock \in [Names -> Threads \cup {None}]

LineOK == line \in [Threads -> [id : Nat, next : Nat]]

CountsOK ==
  /\ lines \in 0..MaxLines /\ calls \in 0..MaxCalls
  /\ fault \in BOOLEAN

LoggersShape == AtOK /\ MapOK /\ ConfOK /\ ListsOK /\ LineOK /\ CountsOK

(* The places of the threads, and the mutexes they hold there.             *)
AtNames == \A t \in Threads : In(t, "idle") <=> Of(t) = None
Inserts == \A t \in Threads : lock = t <=> In(t, "insert")
Writes == \A t \in Threads, n \in Names : listLock[n] = t <=> In(t, "write") /\ Of(t) = n
Exists ==
  \A t \in Threads :
    at[t].in \in Fields \cup {"change", "wait", "write"} => Of(t) \in instances
(* The one at an insertion has seen, under the mutex, that it is needed.   *)
Lacking == \A t \in Threads : In(t, "insert") => Of(t) \notin instances
Lines == \A t \in Threads : IF In(t, "write") THEN line[t].next > 0 ELSE line[t] = NoLine

LoggersControl == AtNames /\ Inserts /\ Writes /\ Exists /\ Lacking /\ Lines

LoggersInv == LoggersShape /\ LoggersControl

LEMMA LoggersInvTypes == LoggersInv => LoggersTypeOK
<1>. SUFFICES ASSUME LoggersInv PROVE LoggersTypeOK
  OBVIOUS
<1>. USE LoggersAssumption DEF LoggersInv, LoggersShape, LoggersControl
<1>1. \A t \in Threads : at[t] = Idle \/ Of(t) \in Names
  BY DEF AtOK, AtNames, In, Of, Idle
<1>2. \A t \in Threads : line[t] # NoLine <=> In(t, "write")
  BY DEF Lines, NoLine
<1>3. /\ \A t \in Threads : lock = t <=> In(t, "insert")
      /\ \A t \in Threads, n \in Names : listLock[n] = t <=> In(t, "write") /\ Of(t) = n
      /\ \A t \in Threads :
           at[t].in \in Fields \cup {"change", "wait", "write"} => Of(t) \in instances
  BY DEF Inserts, Writes, Exists
<1>. QED
  BY <1>1, <1>2, <1>3 DEF MapOK, ConfOK, ListsOK, CountsOK, LoggersTypeOK

LEMMA LoggersInvInit == LoggersInit => LoggersInv
<1>. SUFFICES ASSUME LoggersInit PROVE LoggersInv
  OBVIOUS
<1>. USE LoggersAssumption DEF LoggersInit
<1>1. AtOK /\ MapOK /\ ConfOK /\ LineOK /\ CountsOK
  <2>1. AtOK
    BY DEF AtOK, Idle, Places
  <2>4. MapOK /\ CountsOK
    <3>1. MaxLines \in Nat /\ MaxCalls \in Nat
      OBVIOUS
    <3>2. MapOK /\ lines \in 0..MaxLines /\ calls \in 0..MaxCalls
      BY <3>1 DEF MapOK
    <3>3. fault \in BOOLEAN
      OBVIOUS
    <3>. QED
      BY <3>2, <3>3 DEF CountsOK
  <2>2. ConfOK
    BY DEF ConfOK
  <2>3. LineOK
    BY DEF LineOK, NoLine
  <2>. QED
    BY <2>1, <2>2, <2>3, <2>4
<1>2. ListsOK
  <2>1. <<>> \in Seq(Appenders)
    OBVIOUS
  <2>. QED
    BY <2>1 DEF ListsOK
<1>3. LoggersControl
  BY DEF LoggersControl, AtNames, Inserts, Writes, Exists, Lacking, Fields, Lines, In, Of, Idle, NoLine
<1>. QED
  BY <1>1, <1>2, <1>3 DEF LoggersInv, LoggersShape

(* A thread that goes somewhere is there, and the others stay.             *)
LEMMA GoesThere ==
  ASSUME AtOK, NEW t \in Threads, NEW place \in Places, NEW n \in Names \cup {None}, Goes(t, place, n)
  PROVE  /\ AtOK'
         /\ at'[t].in = place /\ at'[t].of = n
         /\ \A s \in Threads : s # t => at'[s].in = at[s].in /\ at'[s].of = at[s].of
  BY DEF AtOK, Goes

LEMMA ReturnsThere ==
  ASSUME AtOK, NEW t \in Threads, Returns(t)
  PROVE  /\ AtOK'
         /\ at'[t].in = "idle" /\ at'[t].of = None
         /\ \A s \in Threads : s # t => at'[s].in = at[s].in /\ at'[s].of = at[s].of
  BY DEF AtOK, Returns, Idle, Places

(* The steps of a call or of one that has begun.                           *)
LEMMA LoggersShapeStep ==
  ASSUME LoggersInv, NEW t \in Threads,
         LoggerCall(t) \/ LoggerStep(t)
  PROVE  LoggersShape'
<1>. USE LoggersAssumption DEF mapVars, logVars
<1>20. /\ AtOK /\ MapOK /\ ConfOK /\ ListsOK /\ LineOK /\ CountsOK
       /\ Of(t) \in Names \cup {None} /\ (Of(t) # None <=> ~In(t, "idle"))
  BY DEF LoggersInv, LoggersShape, LoggersControl, AtOK, AtNames, Of, In
<1>21. /\ \A place \in Places, n \in Names \cup {None} : Goes(t, place, n) => AtOK'
       /\ Returns(t) => AtOK'
       /\ UNCHANGED at => AtOK'
       /\ Places = {"idle", "find", "lock", "insert", "on", "level", "top", "change", "wait", "write"}
  BY <1>20, GoesThere, ReturnsThere DEF AtOK, Places
<1>1. ASSUME NEW n \in Names, Get(t, n) PROVE LoggersShape'
  <2>1. AtOK'
    BY <1>20, <1>21, <1>1 DEF Get, In
  <2>2. MapOK' /\ ConfOK' /\ ListsOK' /\ LineOK' /\ CountsOK'
    BY <1>20, <1>1 DEF Get, MapOK, ConfOK, ListsOK, LineOK, CountsOK
  <2>. QED
    BY <2>1, <2>2 DEF LoggersShape
<1>2. ASSUME NEW n \in Names, Set(t, n) PROVE LoggersShape'
  <2>1. AtOK'
    BY <1>20, <1>21, <1>2 DEF Set, Fields, In
  <2>2. CountsOK'
    BY <1>20, <1>2 DEF Set, Configures, CountsOK, In
  <2>3. MapOK' /\ ConfOK' /\ ListsOK' /\ LineOK'
    BY <1>20, <1>2 DEF Set, MapOK, ConfOK, ListsOK, LineOK
  <2>. QED
    BY <2>1, <2>2, <2>3 DEF LoggersShape
<1>12. CASE SetField(t)
  <2>1. AtOK'
    BY <1>20, <1>21, <1>12 DEF SetField, In
  <2>2. ConfOK'
    <3>1. \A level \in Levels : Clamp(level) \in 0..LevelNone
      BY DEF Levels, Clamp
    <3>5. Of(t) \in Names
      BY <1>20, <1>12 DEF SetField, In
    <3>2. CASE \E on \in BOOLEAN : conf' = [conf EXCEPT ![Of(t)].on = on]
      BY <1>20, <3>2, <3>5 DEF ConfOK
    <3>3. ASSUME NEW level \in Levels, conf' = [conf EXCEPT ![Of(t)].level = Clamp(level)] PROVE ConfOK'
      BY <1>20, <3>1, <3>3, <3>5 DEF ConfOK
    <3>4. ASSUME NEW level \in Levels, conf' = [conf EXCEPT ![Of(t)].top = Clamp(level)] PROVE ConfOK'
      BY <1>20, <3>1, <3>4, <3>5 DEF ConfOK
    <3>. QED
      BY <1>12, <3>2, <3>3, <3>4 DEF SetField
  <2>3. CountsOK'
    BY <1>20, <1>12 DEF SetField, CountsOK, In
  <2>4. MapOK' /\ ListsOK' /\ LineOK'
    BY <1>20, <1>12 DEF SetField, MapOK, ListsOK, LineOK
  <2>. QED
    BY <2>1, <2>2, <2>3, <2>4 DEF LoggersShape
<1>3. ASSUME NEW n \in Names, Change(t, n) PROVE LoggersShape'
  <2>1. AtOK'
    BY <1>20, <1>21, <1>3 DEF Change, In
  <2>2. CountsOK'
    BY <1>20, <1>3 DEF Change, Configures, CountsOK, In
  <2>3. MapOK' /\ ConfOK' /\ ListsOK' /\ LineOK'
    BY <1>20, <1>3 DEF Change, MapOK, ConfOK, ListsOK, LineOK
  <2>. QED
    BY <2>1, <2>2, <2>3 DEF LoggersShape
<1>4. ASSUME NEW n \in Names, NEW level \in Levels, Log(t, n, level) PROVE LoggersShape'
  <2>1. AtOK'
    BY <1>20, <1>21, <1>4 DEF Log, In
  <2>2. MapOK' /\ ConfOK' /\ ListsOK' /\ LineOK' /\ CountsOK'
    BY <1>20, <1>4 DEF Log, MapOK, ConfOK, ListsOK, LineOK, CountsOK
  <2>. QED
    BY <2>1, <2>2 DEF LoggersShape
<1>5. CASE Find(t)
  <2>1. AtOK'
    BY <1>20, <1>21, <1>5 DEF Find, In
  <2>2. CountsOK'
    BY <1>20, <1>5 DEF Find, Others, CountsOK, In
  <2>3. MapOK' /\ ConfOK' /\ ListsOK' /\ LineOK'
    BY <1>20, <1>5 DEF Find, MapOK, ConfOK, ListsOK, LineOK
  <2>. QED
    BY <2>1, <2>2, <2>3 DEF LoggersShape
<1>6. CASE FindAgain(t)
  <2>1. AtOK'
    BY <1>20, <1>21, <1>6 DEF FindAgain, In
  <2>2. MapOK'
    BY <1>20, <1>6 DEF FindAgain, MapOK, In
  <2>3. ConfOK' /\ ListsOK' /\ LineOK' /\ CountsOK'
    BY <1>20, <1>6 DEF FindAgain, ConfOK, ListsOK, LineOK, CountsOK
  <2>. QED
    BY <2>1, <2>2, <2>3 DEF LoggersShape
<1>7. CASE Insert(t)
  <2>1. AtOK'
    BY <1>20, <1>21, <1>7 DEF Insert, In
  <2>2. MapOK'
    BY <1>20, <1>7 DEF Insert, Others, MapOK, In
  <2>3. CountsOK'
    BY <1>20, <1>7 DEF Insert, Others, CountsOK, In
  <2>4. ConfOK' /\ ListsOK' /\ LineOK'
    BY <1>20, <1>7 DEF Insert, ConfOK, ListsOK, LineOK
  <2>. QED
    BY <2>1, <2>2, <2>3, <2>4 DEF LoggersShape
<1>8. CASE Changed(t)
  <2>1. AtOK'
    BY <1>20, <1>21, <1>8 DEF Changed, In
  <2>2. ListsOK'
    <3>1. <<>> \in Seq(Appenders) /\ \A p \in Appenders, q \in Seq(Appenders) : Append(q, p) \in Seq(Appenders)
      OBVIOUS
    <3>2. Of(t) \in Names /\ listLock' = listLock
      BY <1>20, <1>8 DEF Changed, In
    <3>3. list[Of(t)] \in Seq(Appenders)
      BY <1>20, <3>2 DEF ListsOK
    <3>4. list' \in [Names -> Seq(Appenders)]
      <4>1. PICK l \in Seq(Appenders) : list' = [list EXCEPT ![Of(t)] = l]
        BY <1>8, <3>1, <3>3 DEF Changed
      <4>. QED
        BY <1>20, <4>1 DEF ListsOK
    <3>. QED
      BY <1>20, <3>2, <3>4 DEF ListsOK
  <2>3. CountsOK'
    BY <1>20, <1>8 DEF Changed, CountsOK, In
  <2>4. MapOK' /\ ConfOK' /\ LineOK'
    BY <1>20, <1>8 DEF Changed, MapOK, ConfOK, LineOK
  <2>. QED
    BY <2>1, <2>2, <2>3, <2>4 DEF LoggersShape
<1>9. CASE LogLock(t)
  <2>1. AtOK'
    BY <1>20, <1>21, <1>9 DEF LogLock, In
  <2>2. ListsOK'
    BY <1>20, <1>9 DEF LogLock, Begins, ListsOK, In
  <2>3. LineOK'
    <3>1. lines' \in Nat
      BY <1>20, <1>9 DEF LogLock, Begins, CountsOK
    <3>. QED
      BY <1>20, <1>9, <3>1 DEF LogLock, Begins, LineOK
  <2>4. CountsOK'
    BY <1>20, <1>9 DEF LogLock, Begins, CountsOK, In
  <2>5. MapOK' /\ ConfOK'
    BY <1>20, <1>9 DEF LogLock, MapOK, ConfOK
  <2>. QED
    BY <2>1, <2>2, <2>3, <2>4, <2>5 DEF LoggersShape
<1>10. CASE Write(t)
  <2>1. AtOK'
    BY <1>20, <1>21, <1>10 DEF Write, In
  <2>2. LineOK'
    BY <1>20, <1>10 DEF Write, LineOK, In
  <2>3. MapOK' /\ ConfOK' /\ ListsOK' /\ CountsOK'
    BY <1>20, <1>10 DEF Write, MapOK, ConfOK, ListsOK, CountsOK
  <2>. QED
    BY <2>1, <2>2, <2>3 DEF LoggersShape
<1>11. CASE LogEnd(t)
  <2>1. AtOK'
    BY <1>20, <1>21, <1>11 DEF LogEnd, In
  <2>2. ListsOK'
    BY <1>20, <1>11 DEF LogEnd, ListsOK, In
  <2>3. LineOK'
    BY <1>20, <1>11 DEF LogEnd, LineOK, NoLine
  <2>4. MapOK' /\ ConfOK' /\ CountsOK'
    BY <1>20, <1>11 DEF LogEnd, MapOK, ConfOK, CountsOK
  <2>. QED
    BY <2>1, <2>2, <2>3, <2>4 DEF LoggersShape
<1>. QED
  BY <1>1, <1>2, <1>3, <1>4, <1>5, <1>6, <1>7, <1>8, <1>9, <1>10, <1>11, <1>12 DEF LoggerCall, LoggerStep

LEMMA LackingStep ==
  ASSUME LoggersInv, NEW t \in Threads, LoggerCall(t) \/ LoggerStep(t)
  PROVE  Lacking'
<1>. USE LoggersAssumption DEF In, Of
<1>20. AtOK /\ MapOK /\ Inserts /\ Lacking
  BY DEF LoggersInv, LoggersShape, LoggersControl
<1>21. /\ \A place \in Places, n \in Names \cup {None} :
            Goes(t, place, n) => /\ at'[t].in = place /\ at'[t].of = n
                                 /\ \A s \in Threads : s # t => at'[s] = at[s]
       /\ Returns(t) => at'[t].in = "idle" /\ \A s \in Threads : s # t => at'[s] = at[s]
  BY <1>20 DEF AtOK, Goes, Returns, Idle
<1>1. CASE Insert(t)
  <2>1. \A s \in Threads : s # t => at'[s].in # "insert"
    BY <1>1, <1>20, <1>21 DEF Insert, Inserts
  <2>2. at'[t].in # "insert"
    BY <1>1, <1>21 DEF Insert
  <2>. QED
    BY <2>1, <2>2 DEF Lacking
<1>2. CASE FindAgain(t)
  <2>1. Of(t) \in Names \cup {None}
    BY <1>20 DEF AtOK
  <2>. QED
    BY <1>2, <1>20, <1>21, <2>1 DEF FindAgain, Lacking, Places
<1>3. ASSUME instances' = instances, Returns(t) \/ UNCHANGED at \/
             \E place \in Places \ {"insert"} : \E n \in Names \cup {None} : Goes(t, place, n)
      PROVE  Lacking'
  BY <1>3, <1>20, <1>21 DEF Lacking
<1>4. /\ Of(t) \in Names \cup {None}
      /\ Places \ {"insert"} = {"idle", "find", "lock", "change", "wait", "write"} \cup Fields
  BY <1>20 DEF AtOK, Places, Fields
<1>5. CASE LoggerCall(t)
  <2>1. instances' = instances
    BY <1>5 DEF LoggerCall, Get, Set, Change, Log, mapVars
  <2>2. UNCHANGED at \/ \E place \in Places \ {"insert"} : \E n \in Names \cup {None} : Goes(t, place, n)
    BY <1>4, <1>5 DEF LoggerCall, Get, Set, Change, Log
  <2>. QED
    BY <1>3, <2>1, <2>2
<1>6. CASE Find(t) \/ SetField(t) \/ Changed(t) \/ LogLock(t) \/ Write(t) \/ LogEnd(t)
  <2>1. instances' = instances
    BY <1>6 DEF Find, SetField, Changed, LogLock, Write, LogEnd, mapVars
  <2>2. Returns(t) \/ UNCHANGED at \/ Goes(t, "lock", Of(t)) \/ Goes(t, "write", Of(t))
    BY <1>6 DEF Find, SetField, Changed, LogLock, Write, LogEnd
  <2>. QED
    BY <1>3, <1>4, <2>1, <2>2
<1>. QED
  BY <1>1, <1>2, <1>5, <1>6 DEF LoggerStep

LEMMA LoggersControlStep ==
  ASSUME LoggersInv, NEW t \in Threads, LoggerCall(t) \/ LoggerStep(t)
  PROVE  LoggersControl'
<1>. USE LoggersAssumption DEF mapVars, logVars, In, Of
<1>20. /\ AtOK /\ MapOK /\ ConfOK /\ ListsOK /\ LineOK /\ CountsOK
       /\ AtNames /\ Inserts /\ Writes /\ Exists /\ Lacking /\ Lines
       /\ at[t].of \in Names \cup {None}
  BY DEF LoggersInv, LoggersShape, LoggersControl, AtOK
<1>21. /\ \A place \in {"find", "lock", "insert", "on", "level", "top", "change", "wait", "write"}, n \in Names :
            Goes(t, place, n) =>
              /\ at'[t].in = place /\ at'[t].of = n
              /\ \A s \in Threads : s # t => at'[s].in = at[s].in /\ at'[s].of = at[s].of
       /\ Returns(t) =>
              /\ at'[t].in = "idle" /\ at'[t].of = None
              /\ \A s \in Threads : s # t => at'[s].in = at[s].in /\ at'[s].of = at[s].of
  BY <1>20, GoesThere, ReturnsThere DEF Places
<1>22. Lacking'
  BY LackingStep
<1>23. ASSUME listLock' = listLock, at[t].in # "write",
              \/ UNCHANGED at
              \/ /\ at'[t].in # "write"
                 /\ \A s \in Threads : s # t => at'[s].in = at[s].in /\ at'[s].of = at[s].of
       PROVE  Writes'
  <2>1. \A s \in Threads, m \in Names :
          at'[s].in = "write" /\ at'[s].of = m <=> at[s].in = "write" /\ at[s].of = m
    BY <1>23
  <2>. QED
    BY <1>20, <1>23, <2>1 DEF Writes
<1>1. ASSUME NEW n \in Names, Get(t, n) PROVE LoggersControl'
  <2>1. AtNames'
    BY <1>20, <1>21, <1>1 DEF Get, AtNames
  <2>2. Inserts'
    BY <1>20, <1>21, <1>1 DEF Get, Inserts, MapOK
  <2>3. Writes'
    BY <1>20, <1>21, <1>1 DEF Get, Writes, ListsOK
  <2>4. Exists'
    BY <1>20, <1>21, <1>1 DEF Get, Exists, Fields, MapOK
  <2>5. Lines'
    BY <1>20, <1>21, <1>1 DEF Get, Lines, LineOK, NoLine
  <2>. QED
    BY <1>22, <2>1, <2>2, <2>3, <2>4, <2>5 DEF LoggersControl
<1>2. ASSUME NEW n \in Names, Set(t, n) PROVE LoggersControl'
  <2>1. AtNames'
    BY <1>20, <1>21, <1>2 DEF Set, Configures, Fields, AtNames
  <2>2. Inserts'
    BY <1>20, <1>21, <1>2 DEF Set, Configures, Fields, Inserts, MapOK
  <2>3. Writes'
    <3>1. PICK field \in Fields : at[t].in = "idle" /\ Goes(t, field, n) /\ listLock' = listLock
      BY <1>2 DEF Set, Configures
    <3>2. at'[t].in # "write" /\ \A s \in Threads : s # t => at'[s].in = at[s].in /\ at'[s].of = at[s].of
      BY <1>21, <3>1 DEF Fields
    <3>3. \A s \in Threads, m \in Names :
            at'[s].in = "write" /\ at'[s].of = m <=> at[s].in = "write" /\ at[s].of = m
      BY <3>1, <3>2
    <3>. QED
      BY <1>20, <3>1, <3>3 DEF Writes
  <2>4. Exists'
    BY <1>20, <1>21, <1>2 DEF Set, Configures, Fields, Exists, MapOK
  <2>5. Lines'
    BY <1>20, <1>21, <1>2 DEF Set, Configures, Fields, Lines, LineOK, NoLine
  <2>. QED
    BY <1>22, <2>1, <2>2, <2>3, <2>4, <2>5 DEF LoggersControl
<1>12. CASE SetField(t)
  <2>1. AtNames'
    BY <1>20, <1>21, <1>12 DEF SetField, AtNames
  <2>2. Inserts'
    BY <1>20, <1>21, <1>12 DEF SetField, Inserts, MapOK, AtNames
  <2>3. Writes'
    BY <1>20, <1>21, <1>23, <1>12 DEF SetField, AtNames
  <2>4. Exists'
    BY <1>20, <1>21, <1>12 DEF SetField, Exists, Fields, MapOK, AtNames
  <2>5. Lines'
    BY <1>20, <1>21, <1>12 DEF SetField, Lines, LineOK, NoLine, AtNames
  <2>. QED
    BY <1>22, <2>1, <2>2, <2>3, <2>4, <2>5 DEF LoggersControl
<1>3. ASSUME NEW n \in Names, Change(t, n) PROVE LoggersControl'
  <2>1. AtNames'
    BY <1>20, <1>21, <1>3 DEF Change, Configures, AtNames
  <2>2. Inserts'
    BY <1>20, <1>21, <1>3 DEF Change, Configures, Inserts, MapOK
  <2>3. Writes'
    <3>1. at[t].in = "idle" /\ Goes(t, "change", n) /\ listLock' = listLock
      BY <1>3 DEF Change, Configures
    <3>2. at'[t].in = "change" /\ \A s \in Threads : s # t => at'[s].in = at[s].in /\ at'[s].of = at[s].of
      BY <1>21, <3>1
    <3>3. \A s \in Threads, m \in Names :
            at'[s].in = "write" /\ at'[s].of = m <=> at[s].in = "write" /\ at[s].of = m
      BY <3>1, <3>2
    <3>. QED
      BY <1>20, <3>1, <3>3 DEF Writes
  <2>4. Exists'
    BY <1>20, <1>21, <1>3 DEF Change, Configures, Exists, Fields, MapOK
  <2>5. Lines'
    BY <1>20, <1>21, <1>3 DEF Change, Configures, Lines, LineOK, NoLine
  <2>. QED
    BY <1>22, <2>1, <2>2, <2>3, <2>4, <2>5 DEF LoggersControl
<1>4. ASSUME NEW n \in Names, NEW level \in Levels, Log(t, n, level) PROVE LoggersControl'
  <2>1. AtNames'
    BY <1>20, <1>21, <1>4 DEF Log, AtNames
  <2>2. Inserts'
    BY <1>20, <1>21, <1>4 DEF Log, Inserts, MapOK
  <2>3. Writes'
    BY <1>20, <1>21, <1>23, <1>4 DEF Log
  <2>4. Exists'
    BY <1>20, <1>21, <1>4 DEF Log, Exists, Fields, MapOK
  <2>5. Lines'
    BY <1>20, <1>21, <1>4 DEF Log, Lines, LineOK, NoLine
  <2>. QED
    BY <1>22, <2>1, <2>2, <2>3, <2>4, <2>5 DEF LoggersControl
<1>5. CASE Find(t)
  <2>1. AtNames'
    BY <1>20, <1>21, <1>5 DEF Find, AtNames
  <2>2. Inserts'
    BY <1>20, <1>21, <1>5 DEF Find, Inserts, MapOK, AtNames
  <2>3. Writes'
    BY <1>20, <1>21, <1>23, <1>5 DEF Find, AtNames
  <2>4. Exists'
    BY <1>20, <1>21, <1>5 DEF Find, Exists, Fields, MapOK, AtNames
  <2>5. Lines'
    BY <1>20, <1>21, <1>5 DEF Find, Lines, LineOK, NoLine, AtNames
  <2>. QED
    BY <1>22, <2>1, <2>2, <2>3, <2>4, <2>5 DEF LoggersControl
<1>6. CASE FindAgain(t)
  <2>1. AtNames'
    BY <1>20, <1>21, <1>6 DEF FindAgain, AtNames
  <2>2. Inserts'
    BY <1>20, <1>21, <1>6 DEF FindAgain, Inserts, MapOK, AtNames
  <2>3. Writes'
    BY <1>20, <1>21, <1>23, <1>6 DEF FindAgain, AtNames
  <2>4. Exists'
    BY <1>20, <1>21, <1>6 DEF FindAgain, Exists, Fields, MapOK, AtNames
  <2>5. Lines'
    BY <1>20, <1>21, <1>6 DEF FindAgain, Lines, LineOK, NoLine, AtNames
  <2>. QED
    BY <1>22, <2>1, <2>2, <2>3, <2>4, <2>5 DEF LoggersControl
<1>7. CASE Insert(t)
  <2>1. AtNames'
    BY <1>20, <1>21, <1>7 DEF Insert, AtNames
  <2>2. Inserts'
    BY <1>20, <1>21, <1>7 DEF Insert, Inserts, MapOK
  <2>3. Writes'
    BY <1>20, <1>21, <1>7 DEF Insert, Writes, ListsOK
  <2>4. Exists'
    BY <1>20, <1>21, <1>7 DEF Insert, Exists, Fields, MapOK
  <2>5. Lines'
    BY <1>20, <1>21, <1>7 DEF Insert, Lines, LineOK, NoLine
  <2>. QED
    BY <1>22, <2>1, <2>2, <2>3, <2>4, <2>5 DEF LoggersControl
<1>8. CASE Changed(t)
  <2>1. AtNames'
    BY <1>20, <1>21, <1>8 DEF Changed, AtNames
  <2>2. Inserts'
    BY <1>20, <1>21, <1>8 DEF Changed, Inserts, MapOK, AtNames
  <2>3. Writes'
    BY <1>20, <1>21, <1>23, <1>8 DEF Changed, AtNames
  <2>4. Exists'
    BY <1>20, <1>21, <1>8 DEF Changed, Exists, Fields, MapOK, AtNames
  <2>5. Lines'
    BY <1>20, <1>21, <1>8 DEF Changed, Lines, LineOK, NoLine, AtNames
  <2>. QED
    BY <1>22, <2>1, <2>2, <2>3, <2>4, <2>5 DEF LoggersControl
<1>9. CASE LogLock(t)
  <2>1. AtNames'
    BY <1>20, <1>21, <1>9 DEF LogLock, Begins, AtNames
  <2>2. Inserts'
    BY <1>20, <1>21, <1>9 DEF LogLock, Begins, Inserts, MapOK, AtNames
  <2>3. Writes'
    <3>1. at[t].in = "wait" /\ at[t].of \in Names /\ listLock[at[t].of] = None
      BY <1>20, <1>9 DEF LogLock, AtNames
    <3>2. at'[t].in = "write" /\ at'[t].of = at[t].of /\ listLock' = [listLock EXCEPT ![at[t].of] = t]
      BY <1>21, <1>9, <3>1 DEF LogLock
    <3>3. \A s \in Threads : s # t => at'[s].in = at[s].in /\ at'[s].of = at[s].of
      BY <1>21, <1>9, <3>1 DEF LogLock
    <3>4. ASSUME NEW s \in Threads, NEW n \in Names
          PROVE  listLock'[n] = s <=> at'[s].in = "write" /\ at'[s].of = n
      BY <1>20, <3>1, <3>2, <3>3, SMTT(40) DEF Writes, ListsOK
    <3>. QED
      BY <3>4 DEF Writes
  <2>4. Exists'
    BY <1>20, <1>21, <1>9 DEF LogLock, Begins, Exists, Fields, MapOK, AtNames
  <2>5. Lines'
    <3>1. at[t].in = "wait" /\ at[t].of \in Names
      BY <1>20, <1>9 DEF LogLock, AtNames
    <3>2. /\ at'[t].in = "write"
          /\ \A s \in Threads : s # t => at'[s].in = at[s].in
      BY <1>21, <1>9, <3>1 DEF LogLock
    <3>3. line'[t].next = 1 /\ \A s \in Threads : s # t => line'[s] = line[s]
      BY <1>20, <1>9 DEF LogLock, Begins, LineOK
    <3>. QED
      BY <1>20, <3>2, <3>3 DEF Lines
  <2>. QED
    BY <1>22, <2>1, <2>2, <2>3, <2>4, <2>5 DEF LoggersControl
<1>10. CASE Write(t)
  <2>1. AtNames'
    BY <1>20, <1>21, <1>10 DEF Write, AtNames
  <2>2. Inserts'
    BY <1>20, <1>21, <1>10 DEF Write, Inserts, MapOK
  <2>3. Writes'
    <3>1. at' = at /\ listLock' = listLock
      BY <1>10 DEF Write
    <3>. QED
      BY <1>20, <3>1 DEF Writes
  <2>4. Exists'
    BY <1>20, <1>21, <1>10 DEF Write, Exists, Fields, MapOK
  <2>5. Lines'
    <3>1. at' = at /\ at[t].in = "write" /\ line' = [line EXCEPT ![t].next = line[t].next + 1]
      BY <1>10 DEF Write
    <3>2. line'[t].next = line[t].next + 1 /\ line[t].next \in Nat
      BY <1>20, <3>1 DEF LineOK
    <3>3. \A s \in Threads : s # t => line'[s] = line[s]
      BY <1>20, <3>1 DEF LineOK
    <3>4. line'[t].next > 0
      BY <3>2
    <3>. QED
      BY <1>20, <3>1, <3>3, <3>4 DEF Lines, NoLine
  <2>. QED
    BY <1>22, <2>1, <2>2, <2>3, <2>4, <2>5 DEF LoggersControl
<1>11. CASE LogEnd(t)
  <2>1. AtNames'
    BY <1>20, <1>21, <1>11 DEF LogEnd, AtNames
  <2>2. Inserts'
    BY <1>20, <1>21, <1>11 DEF LogEnd, Inserts, MapOK
  <2>3. Writes'
    BY <1>20, <1>21, <1>11 DEF LogEnd, Writes, ListsOK
  <2>4. Exists'
    BY <1>20, <1>21, <1>11 DEF LogEnd, Exists, Fields, MapOK
  <2>5. Lines'
    BY <1>20, <1>21, <1>11 DEF LogEnd, Lines, LineOK, NoLine
  <2>. QED
    BY <1>22, <2>1, <2>2, <2>3, <2>4, <2>5 DEF LoggersControl
<1>. QED
  BY <1>1, <1>2, <1>3, <1>4, <1>5, <1>6, <1>7, <1>8, <1>9, <1>10, <1>11, <1>12 DEF LoggerCall, LoggerStep

-----------------------------------------------------------------------------
(* Dispatch *)

ActorShape ==
  /\ handlers \in [Signatures -> Funcs \cup {None}]
  /\ phase \in {"construct", "free", "logger", "search", "found", "run"}
  /\ runner \in Threads \cup {None}
  /\ runner = None <=> phase = "free"
  /\ msg \in Signatures <=> phase \notin {"construct", "free"}
  /\ phase = "run" => running \in Funcs

(* A function is in the table since the first registration, for the same   *)
(* parameters, of those that nothing took back.                            *)
First(s, i) ==
  /\ i \in DOMAIN regs[s]
  /\ i = 1 \/ regs[s][i - 1] = None
  /\ \A j \in i..Len(regs[s]) : regs[s][j] # None

TableInv ==
  /\ regs \in [Signatures -> Seq(Funcs \cup {None})]
  /\ \A s \in Signatures :
       IF handlers[s] = None
       THEN regs[s] = <<>> \/ regs[s][Len(regs[s])] = None
       ELSE \E i \in DOMAIN regs[s] : First(s, i) /\ regs[s][i] = handlers[s]
  /\ phase = "found" => running = handlers[msg]

DispatchInv == LoggersInv /\ ActorShape /\ TableInv

LEMMA DispatchInit == Init => DispatchInv
<1>. SUFFICES ASSUME Init PROVE DispatchInv
  OBVIOUS
<1>. USE LoggersAssumption, DispatchAssumption DEF Init
<1>1. LoggersInv
  BY LoggersInvInit
<1>3. ActorShape
  BY DEF ActorShape
<1>4. TableInv
  <2>1. <<>> \in Seq(Funcs \cup {None})
    OBVIOUS
  <2>. QED
    BY <2>1 DEF TableInv
<1>. QED
  BY <1>1, <1>3, <1>4 DEF DispatchInv

(* A step is one of the loggers', or leaves them alone but for the count   *)
(* of calls.                                                               *)
LEMMA StepOfLoggers ==
  ASSUME DispatchInv, Next
  PROVE  \/ \E t \in Threads : LoggerCall(t) \/ LoggerStep(t)
         \/ /\ UNCHANGED <<mapVars, conf, list, listLock, logVars, at, fault>>
            /\ calls' \in 0..MaxCalls
<1>. USE DispatchAssumption
<1>1. ASSUME NEW t \in Threads, LoggerOnly(t)
      PROVE  LoggerCall(t) \/ LoggerStep(t)
  BY <1>1 DEF LoggerOnly
<1>2. ASSUME NEW t \in Threads, NEW s \in Signatures, Call(t, s)
      PROVE  LoggerCall(t)
  BY <1>2 DEF Call, LoggerCall
<1>3. ASSUME NEW t \in Threads, Starts(t) \/ Search(t)
      PROVE  LoggerCall(t)
  BY <1>3 DEF Starts, Search, Says, LoggerCall
<1>4. calls \in 0..MaxCalls
  BY DEF DispatchInv, LoggersInv, LoggersShape, CountsOK
<1>5. ASSUME NEW t \in Threads, NEW s \in Signatures,
             Unhandle(t, s) \/ \E f \in Funcs : Handle(t, s, f)
      PROVE  /\ UNCHANGED <<mapVars, conf, list, listLock, logVars, at, fault>>
             /\ calls' \in 0..MaxCalls
  BY <1>4, <1>5, LoggersAssumption DEF Unhandle, Handle, Registers
<1>6. ASSUME NEW t \in Threads, Invoke(t) \/ Return(t)
      PROVE  UNCHANGED loggerVars
  BY <1>6 DEF Invoke, Return
<1>. QED
  BY <1>1, <1>2, <1>3, <1>4, <1>5, <1>6 DEF Next, loggerVars, mapVars, logVars

LEMMA LoggersKept ==
  ASSUME DispatchInv, [Next]_vars
  PROVE  LoggersInv'
<1>. USE DEF DispatchInv
<1>1. ASSUME NEW t \in Threads, LoggerCall(t) \/ LoggerStep(t)
      PROVE  LoggersInv'
  BY <1>1, LoggersShapeStep, LoggersControlStep DEF LoggersInv
<1>2. ASSUME UNCHANGED <<mapVars, conf, list, listLock, logVars, at, fault>>,
             calls' \in 0..MaxCalls
      PROVE  LoggersInv'
  <2>1. LoggersShape'
    BY <1>2 DEF LoggersInv, LoggersShape, AtOK, MapOK, ConfOK, ListsOK, LineOK, CountsOK, mapVars, logVars
  <2>2. LoggersControl'
    BY <1>2 DEF LoggersInv, LoggersControl, AtNames, Inserts, Writes, Exists, Lacking, Lines, In, Of,
                mapVars, logVars
  <2>. QED
    BY <2>1, <2>2 DEF LoggersInv
<1>3. CASE UNCHANGED vars
  <2>1. calls' \in 0..MaxCalls
    BY <1>3 DEF vars, loggerVars, LoggersInv, LoggersShape, CountsOK
  <2>. QED
    BY <1>2, <1>3, <2>1 DEF vars, loggerVars, mapVars, logVars
<1>4. CASE Next
  BY <1>1, <1>2, <1>4, StepOfLoggers
<1>. QED
  BY <1>3, <1>4

LEMMA ActorKept ==
  ASSUME DispatchInv, [Next]_vars
  PROVE  ActorShape'
<1>. USE LoggersAssumption, DispatchAssumption DEF DispatchInv, ActorShape, tableVars, callVars
<1>1. ASSUME NEW t \in Threads, LoggerOnly(t), UNCHANGED <<tableVars, callVars>> PROVE ActorShape'
  BY <1>1
<1>2. ASSUME NEW t \in Threads, NEW s \in Signatures, Call(t, s) PROVE ActorShape'
  BY <1>2 DEF Call
<1>3. ASSUME NEW t \in Threads, NEW s \in Signatures, Unhandle(t, s) PROVE ActorShape'
  BY <1>3 DEF Unhandle, Registers
<1>4. ASSUME NEW t \in Threads, NEW s \in Signatures, NEW f \in Funcs, Handle(t, s, f) PROVE ActorShape'
  BY <1>4 DEF Handle, Emplace, Registers
<1>5. ASSUME NEW t \in Threads, Starts(t) PROVE ActorShape'
  BY <1>5 DEF Starts
<1>6. ASSUME NEW t \in Threads, Search(t) PROVE ActorShape'
  BY <1>6 DEF Search
<1>7. ASSUME NEW t \in Threads, Invoke(t) PROVE ActorShape'
  <2>1. running # None => running \in Funcs
    BY <1>7 DEF Invoke, TableInv
  <2>. QED
    BY <1>7, <2>1 DEF Invoke, Ends
<1>8. ASSUME NEW t \in Threads, Return(t) PROVE ActorShape'
  BY <1>8 DEF Return, Ends
<1>9. CASE UNCHANGED vars
  BY <1>9 DEF vars
<1>. QED
  BY <1>1, <1>2, <1>3, <1>4, <1>5, <1>6, <1>7, <1>8, <1>9 DEF Next

(* handle and unhandle keep the table what the program means.              *)
LEMMA RegistrationKeeps ==
  ASSUME DispatchInv, NEW t \in Threads, NEW s \in Signatures, NEW f \in Funcs \cup {None},
         Registers(t, s, f),
         handlers' = [handlers EXCEPT ![s] = IF f = None THEN None
                                             ELSE IF handlers[s] = None THEN f ELSE handlers[s]]
  PROVE  TableInv'
<1>. USE DispatchAssumption DEF DispatchInv, ActorShape, TableInv
<1>1. /\ regs[s] \in Seq(Funcs \cup {None})
      /\ regs' = [regs EXCEPT ![s] = Append(regs[s], f)]
      /\ regs' \in [Signatures -> Seq(Funcs \cup {None})]
  BY DEF Registers
<1>2. /\ regs'[s] = Append(regs[s], f)
      /\ Len(regs'[s]) = Len(regs[s]) + 1 /\ regs'[s][Len(regs[s]) + 1] = f
      /\ \A i \in 1..Len(regs[s]) : regs'[s][i] = regs[s][i]
      /\ DOMAIN regs[s] = 1..Len(regs[s]) /\ DOMAIN regs'[s] = 1..(Len(regs[s]) + 1)
      /\ Len(regs[s]) \in Nat
  BY <1>1
<1>3. ASSUME NEW r \in Signatures, r # s
      PROVE  IF handlers'[r] = None
             THEN regs'[r] = <<>> \/ regs'[r][Len(regs'[r])] = None
             ELSE \E i \in DOMAIN regs'[r] : First(r, i)' /\ regs'[r][i] = handlers'[r]
  <2>1. handlers'[r] = handlers[r] /\ regs'[r] = regs[r]
    BY <1>1, <1>3
  <2>2. IF handlers[r] = None
        THEN regs[r] = <<>> \/ regs[r][Len(regs[r])] = None
        ELSE \E i \in DOMAIN regs[r] : First(r, i) /\ regs[r][i] = handlers[r]
    OBVIOUS
  <2>3. \A i \in DOMAIN regs[r] : First(r, i) => First(r, i)'
    BY ONLY <2>1 DEF First
  <2>. QED
    BY ONLY <2>1, <2>2, <2>3
<1>4. CASE f = None
  <2>1. handlers'[s] = None /\ regs'[s][Len(regs'[s])] = None
    BY <1>2, <1>4
  <2>. QED
    BY <1>1, <1>3, <2>1 DEF Registers, UserCode, callVars
<1>5. CASE f # None /\ handlers[s] = None
  <2>1. regs[s] = <<>> \/ regs[s][Len(regs[s])] = None
    BY <1>5
  <2>7. PICK i \in Nat : i = Len(regs[s]) + 1
    BY <1>2
  <2>2. i \in DOMAIN regs'[s] /\ regs'[s][i] = f /\ f # None
    BY <1>2, <1>5, <2>7
  <2>4. i = 1 \/ regs'[s][i - 1] = None
    <3>1. CASE regs[s] = <<>>
      BY <2>7, <3>1
    <3>2. CASE regs[s] # <<>> /\ regs[s][Len(regs[s])] = None
      <4>1. Len(regs[s]) \in 1..Len(regs[s]) /\ i - 1 = Len(regs[s])
        BY <1>1, <1>2, <2>7, <3>2
      <4>. QED
        BY <1>2, <3>2, <4>1
    <3>. QED
      BY <2>1, <3>1, <3>2
  <2>5. \A j \in i..Len(regs'[s]) : regs'[s][j] # None
    BY <1>2, <2>2, <2>7
  <2>6. First(s, i)'
    BY <2>2, <2>4, <2>5 DEF First
  <2>3. handlers'[s] = f
    BY <1>5
  <2>. QED
    BY <1>1, <1>3, <1>5, <2>2, <2>3, <2>6, ZenonT(60) DEF Registers, UserCode, callVars
<1>6. CASE f # None /\ handlers[s] # None
  <2>1. PICK i \in DOMAIN regs[s] : First(s, i) /\ regs[s][i] = handlers[s]
    BY <1>6
  <2>2. i \in DOMAIN regs'[s] /\ First(s, i)' /\ regs'[s][i] = handlers[s]
    BY <1>2, <1>6, <2>1 DEF First
  <2>3. handlers'[s] = handlers[s]
    BY <1>6
  <2>. QED
    BY <1>1, <1>3, <1>6, <2>2, <2>3 DEF Registers, UserCode, callVars
<1>. QED
  BY <1>4, <1>5, <1>6

LEMMA TableKept ==
  ASSUME DispatchInv, [Next]_vars
  PROVE  TableInv'
<1>. USE LoggersAssumption, DispatchAssumption DEF DispatchInv, tableVars, callVars
<1>1. ASSUME UNCHANGED tableVars, phase' = "found" => running' = handlers'[msg'] PROVE TableInv'
  BY <1>1 DEF TableInv, First
<1>2. ASSUME NEW t \in Threads, NEW s \in Signatures,
             Unhandle(t, s) \/ \E f \in Funcs : Handle(t, s, f)
      PROVE  TableInv'
  <2>1. CASE Unhandle(t, s)
    BY <2>1, RegistrationKeeps DEF Unhandle
  <2>2. ASSUME NEW f \in Funcs, Handle(t, s, f) PROVE TableInv'
    <3>1. handlers' = [handlers EXCEPT ![s] = IF handlers[s] = None THEN f ELSE handlers[s]]
      BY <2>2 DEF Handle, Emplace, ActorShape
    <3>. QED
      BY <2>2, <3>1, RegistrationKeeps DEF Handle
  <2>. QED
    BY <1>2, <2>1, <2>2
<1>3. ASSUME NEW t \in Threads, Starts(t) \/ Search(t) \/ Invoke(t) \/ Return(t) PROVE TableInv'
  BY <1>1, <1>3 DEF Starts, Search, Invoke, Return, Ends
<1>4. ASSUME NEW t \in Threads, NEW s \in Signatures, Call(t, s) PROVE TableInv'
  BY <1>1, <1>4 DEF Call
<1>5. CASE UNCHANGED <<tableVars, callVars>>
  BY <1>1, <1>5 DEF TableInv
<1>. QED
  BY <1>2, <1>3, <1>4, <1>5 DEF Next, vars

LEMMA DispatchStep == DispatchInv /\ [Next]_vars => DispatchInv'
  BY LoggersKept, ActorKept, TableKept DEF DispatchInv

LEMMA DispatchInvariant == Spec => []DispatchInv
  BY DispatchInit, DispatchStep, PTL DEF Spec

(* Spec implies that the types hold, that each mutex is held exactly by    *)
(* the thread at work under it, and that one thread at a time is in an     *)
(* actor's call.                                                           *)
THEOREM DispatchTypesCorrect == Spec => []DispatchTypeOK
<1>1. DispatchInv => DispatchTypeOK
  BY LoggersInvTypes DEF DispatchInv, ActorShape, DispatchTypeOK
<1>. QED
  BY <1>1, DispatchInvariant, PTL

(* No two threads make the same logger, although each may have found it    *)
(* missing before it had the mutex.                                        *)
THEOREM LoggersCreatedOnce == Spec => []CreatedOnce
<1>1. DispatchInv => CreatedOnce
  BY DEF DispatchInv, LoggersInv, LoggersControl, Lacking, CreatedOnce
<1>. QED
  BY <1>1, DispatchInvariant, PTL

(* The table holds what the program means.                                 *)
LEMMA TableMeans ==
  ASSUME DispatchInv, NEW s \in Signatures
  PROVE  handlers[s] = Meant(s)
<1>. USE DispatchAssumption DEF DispatchInv, ActorShape, TableInv
<1>1. regs[s] \in Seq(Funcs \cup {None})
  OBVIOUS
<1>2. DOMAIN regs[s] = 1..Len(regs[s]) /\ Len(regs[s]) \in Nat
  BY <1>1
<1>. DEFINE first == {i \in DOMAIN regs[s] :
                        /\ i = 1 \/ regs[s][i - 1] = None
                        /\ \A j \in i..Len(regs[s]) : regs[s][j] # None}
<1>3. first = {i \in DOMAIN regs[s] : First(s, i)}
  BY DEF First
<1>4. Meant(s) = IF first = {} THEN None ELSE regs[s][CHOOSE i \in first : TRUE]
  BY DEF Meant
<1>5. CASE handlers[s] = None
  <2>1. regs[s] = <<>> \/ regs[s][Len(regs[s])] = None
    BY <1>5
  <2>2. first = {}
    BY <1>2, <2>1
  <2>. QED
    BY <1>4, <1>5, <2>2
<1>6. CASE handlers[s] # None
  <2>1. PICK i \in DOMAIN regs[s] : First(s, i) /\ regs[s][i] = handlers[s]
    BY <1>6
  <2>2. ASSUME NEW j \in first PROVE j = i
    <3>1. First(s, j) /\ j \in 1..Len(regs[s])
      BY <1>2, <1>3
    <3>2. ~(i < j)
      BY <1>2, <2>1, <3>1 DEF First
    <3>3. ~(j < i)
      BY <1>2, <2>1, <3>1 DEF First
    <3>. QED
      BY <1>2, <3>1, <3>2, <3>3
  <2>3. first = {i}
    BY <1>3, <2>1, <2>2
  <2>. QED
    BY <1>4, <2>1, <2>3
<1>. QED
  BY <1>5, <1>6

(* A message is handled by the function the program means for it, and by   *)
(* none if it came by reference.                                           *)
THEOREM MessagesHandledAsMeant == Spec => HandledAsMeant
<1>1. ASSUME DispatchInv, [Next]_vars, phase = "found", phase' # "found"
      PROVE  running' = IF msg.ref THEN None ELSE Meant(msg)
  <2>1. PICK t \in Threads : Invoke(t)
    BY <1>1 DEF Next, vars, callVars, LoggerOnly, Call, Unhandle, Handle, Registers, UserCode, Starts,
                Search, Return, DispatchInv, ActorShape
  <2>2. msg \in Signatures /\ running = handlers[msg]
    BY <1>1 DEF DispatchInv, ActorShape, TableInv
  <2>3. running = Meant(msg)
    BY <1>1, <2>2, TableMeans
  <2>. QED
    BY <2>1, <2>3 DEF Invoke, Ends
<1>. QED
  BY <1>1, DispatchInvariant, PTL DEF Spec, HandledAsMeant

-----------------------------------------------------------------------------
(* The order of lines *)

Entries == [id : Nat, of : Names, whole : BOOLEAN]

(* In every appender, the lines of one logger are in the order of their    *)
(* numbers; and no message has two lines with all its arguments.           *)
OutInv ==
  /\ out \in [Appenders -> Seq(Entries)]
  /\ \A p \in Appenders : \A i \in DOMAIN out[p] : out[p][i].id <= lines
  /\ \A p \in Appenders : \A i, j \in DOMAIN out[p] :
       i < j /\ out[p][i].of = out[p][j].of => out[p][i].id <= out[p][j].id
  /\ \A p, q \in Appenders : \A i \in DOMAIN out[p] : \A j \in DOMAIN out[q] :
       out[p][i].whole /\ out[q][j].whole /\ out[p][i].id = out[q][j].id => p = q /\ i = j

(* The message a thread is writing is its logger's latest, and until the   *)
(* first appender has it nobody has its arguments.  (With no appenders it  *)
(* has no number of its own.)                                              *)
Opens(t) == In(t, "write") /\ list[Of(t)] # <<>>
Latest(t) ==
  In(t, "write") =>
    /\ line[t].id <= lines
    /\ \A p \in Appenders : \A i \in DOMAIN out[p] : out[p][i].of = Of(t) => out[p][i].id <= line[t].id
Unspent(t) ==
  Opens(t) /\ line[t].next = 1 =>
    \A p \in Appenders : \A i \in DOMAIN out[p] : ~(out[p][i].whole /\ out[p][i].id = line[t].id)
OpenInv ==
  \A t \in Threads : /\ Latest(t) /\ Unspent(t)
                     /\ \A u \in Threads \ {t} : Opens(t) /\ Opens(u) => line[t].id # line[u].id

(* A list that changes while a thread goes through it is a fault.          *)
LinesInv == OutInv /\ (fault \/ OpenInv)

LEMMA LinesInit == Init => LinesInv
<1>. SUFFICES ASSUME Init PROVE LinesInv
  OBVIOUS
<1>1. \A p \in Appenders : out[p] = <<>> /\ DOMAIN out[p] = {}
  BY DEF Init, LoggersInit
<1>2. <<>> \in Seq(Entries)
  OBVIOUS
<1>3. OutInv
  BY <1>1, <1>2 DEF OutInv, Init, LoggersInit
<1>4. \A t \in Threads : ~In(t, "write")
  BY DEF Init, LoggersInit, In, Idle
<1>5. OpenInv
  BY <1>4 DEF OpenInv, Latest, Unspent, Opens
<1>. QED
  BY <1>3, <1>5 DEF LinesInv

(* Only a thread that begins to write, or writes, changes anything here.   *)
LEMMA OpenSame ==
  ASSUME OpenInv, out' = out, lines' = lines,
         \A s \in Threads : at'[s].in = "write" =>
           at[s].in = "write" /\ at'[s].of = at[s].of /\ line'[s] = line[s] /\ list'[at[s].of] = list[at[s].of]
  PROVE  OpenInv'
<1>1. \A s \in Threads : Opens(s)' => Opens(s) /\ line'[s] = line[s]
  BY DEF Opens, In, Of
<1>2. \A s \in Threads : Latest(s) => Latest(s)'
  BY DEF Latest, In, Of
<1>3. \A s \in Threads : Unspent(s) => Unspent(s)'
  BY <1>1 DEF Unspent
<1>. QED
  BY <1>1, <1>2, <1>3 DEF OpenInv

(* The appender's lines with one more.                                     *)
LEMMA OneMoreLine ==
  ASSUME out \in [Appenders -> Seq(Entries)], NEW q \in Appenders, NEW e \in Entries,
         out' = [out EXCEPT ![q] = Append(@, e)]
  PROVE  /\ out' \in [Appenders -> Seq(Entries)]
         /\ \A p \in Appenders : \A i \in DOMAIN out'[p] :
              \/ i \in DOMAIN out[p] /\ out'[p][i] = out[p][i]
              \/ p = q /\ i = Len(out[q]) + 1 /\ out'[p][i] = e
         /\ Len(out[q]) \in Nat /\ DOMAIN out[q] = 1..Len(out[q])
<1>1. out[q] \in Seq(Entries)
  OBVIOUS
<1>2. /\ out'[q] = Append(out[q], e)
      /\ \A p \in Appenders : p # q => out'[p] = out[p]
  OBVIOUS
<1>3. /\ Append(out[q], e) \in Seq(Entries) /\ Len(Append(out[q], e)) = Len(out[q]) + 1
      /\ Len(out[q]) \in Nat /\ DOMAIN out[q] = 1..Len(out[q])
      /\ DOMAIN Append(out[q], e) = 1..(Len(out[q]) + 1)
      /\ \A i \in 1..Len(out[q]) : Append(out[q], e)[i] = out[q][i]
      /\ Append(out[q], e)[Len(out[q]) + 1] = e
  BY <1>1
<1>4. out' \in [Appenders -> Seq(Entries)]
  BY <1>2, <1>3
<1>5. \A i \in 1..(Len(out[q]) + 1) : i \in 1..Len(out[q]) \/ i = Len(out[q]) + 1
  BY <1>3
<1>6. ASSUME NEW i \in DOMAIN out'[q]
      PROVE  \/ i \in DOMAIN out[q] /\ out'[q][i] = out[q][i]
             \/ i = Len(out[q]) + 1 /\ out'[q][i] = e
  <2>. DEFINE g == Append(out[q], e)
  <2>1. out'[q] = g /\ i \in 1..(Len(out[q]) + 1)
    BY <1>2, <1>3
  <2>2. g[Len(out[q]) + 1] = e /\ \A k \in 1..Len(out[q]) : g[k] = out[q][k]
    BY <1>3
  <2>. HIDE DEF g
  <2>3. CASE i = Len(out[q]) + 1
    BY <2>1, <2>2, <2>3
  <2>4. CASE i # Len(out[q]) + 1
    <3>1. i \in 1..Len(out[q])
      BY <1>5, <2>1, <2>4
    <3>2. i \in DOMAIN out[q]
      BY <1>3, <3>1
    <3>3. out'[q][i] = g[i] /\ g[i] = out[q][i]
      BY <2>1, <2>2, <3>1
    <3>. QED
      BY <3>2, <3>3
  <2>. QED
    BY <2>3, <2>4
<1>7. ASSUME NEW p \in Appenders, NEW i \in DOMAIN out'[p]
      PROVE  \/ i \in DOMAIN out[p] /\ out'[p][i] = out[p][i]
             \/ p = q /\ i = Len(out[q]) + 1 /\ out'[p][i] = e
  BY <1>2, <1>6, <1>7
<1>. QED
  BY <1>3, <1>4, <1>7

LEMMA WriteKeepsOrder ==
  ASSUME LoggersInv, OutInv, OpenInv, NEW t \in Threads, Write(t)
  PROVE  OutInv' /\ OpenInv'
<1>. DEFINE l == line[t]
            n == at[t].of
            q == list[n][l.next]
            e == [id |-> l.id, of |-> n, whole |-> l.next = 1]
<1>1. /\ at[t].in = "write" /\ n \in Names /\ listLock[n] = t
      /\ \A u \in Threads \ {t} : at[u].in = "write" => at[u].of # n
  <2>1. at[t].in = "write" /\ n \in Names
    BY DEF Write, LoggersInv, LoggersShape, LoggersControl, AtOK, AtNames, In, Of
  <2>2. \A u \in Threads, m \in Names : listLock[m] = u <=> at[u].in = "write" /\ at[u].of = m
    BY DEF LoggersInv, LoggersControl, Writes, In, Of
  <2>. HIDE DEF n
  <2>3. listLock[n] = t
    BY <2>1, <2>2 DEF n
  <2>. QED
    BY <2>1, <2>2, <2>3
<1>2. l.id \in Nat /\ l.next \in Nat /\ l.next > 0
  BY DEF Write, LoggersInv, LoggersShape, LoggersControl, LineOK, Lines
<1>3. list[n] \in Seq(Appenders) /\ l.next <= Len(list[n])
  BY <1>1 DEF Write, LoggersInv, LoggersShape, ListsOK, Of
<1>4. q \in Appenders /\ list[n] # <<>>
  BY <1>2, <1>3
<1>5. e \in Entries
  BY <1>1, <1>2 DEF Entries
<1>6. out' = [out EXCEPT ![q] = Append(@, e)]
  BY DEF Write, Of
<1>7. /\ at' = at /\ list' = list /\ lines' = lines
      /\ line'[t].next = l.next + 1 /\ line'[t].id = l.id
      /\ \A u \in Threads \ {t} : line'[u] = line[u]
  BY DEF Write, LoggersInv, LoggersShape, LineOK
<1>8. /\ l.id <= lines
      /\ \A p \in Appenders : \A i \in DOMAIN out[p] : out[p][i].of = n => out[p][i].id <= l.id
      /\ l.next = 1 =>
           \A p \in Appenders : \A i \in DOMAIN out[p] : ~(out[p][i].whole /\ out[p][i].id = l.id)
      /\ \A u \in Threads \ {t} : Opens(u) => line[u].id # l.id
  BY <1>1, <1>4 DEF OpenInv, Latest, Unspent, Opens, In, Of
<1>9. e.id = l.id /\ e.of = n /\ e.whole = (l.next = 1)
  OBVIOUS
<1>. DEFINE last == Len(out[q]) + 1
<1>. HIDE DEF l, n, q, e
<1>10. /\ out' \in [Appenders -> Seq(Entries)]
       /\ \A p \in Appenders : \A i \in DOMAIN out'[p] :
            \/ i \in DOMAIN out[p] /\ out'[p][i] = out[p][i]
            \/ p = q /\ i = last /\ out'[p][i] = e
       /\ Len(out[q]) \in Nat /\ DOMAIN out[q] = 1..Len(out[q])
  <2>1. out \in [Appenders -> Seq(Entries)]
    BY DEF OutInv
  <2>. QED
    BY <1>4, <1>5, <1>6, <2>1, OneMoreLine
<1>11. last \in Nat /\ \A i \in DOMAIN out[q] : i \in Nat /\ ~(last < i) /\ i # last
  BY <1>10
<1>. HIDE DEF last
<1>12. OutInv'
  <2>1. \A p \in Appenders : \A i \in DOMAIN out'[p] : out'[p][i].id <= lines'
    BY <1>7, <1>8, <1>9, <1>10 DEF OutInv
  <2>2. ASSUME NEW p \in Appenders, NEW i \in DOMAIN out'[p], NEW j \in DOMAIN out'[p],
               i < j, out'[p][i].of = out'[p][j].of
        PROVE  out'[p][i].id <= out'[p][j].id
    <3>1. CASE i \in DOMAIN out[p] /\ out'[p][i] = out[p][i] /\ j \in DOMAIN out[p] /\ out'[p][j] = out[p][j]
      BY <2>2, <3>1 DEF OutInv
    <3>2. CASE i \in DOMAIN out[p] /\ out'[p][i] = out[p][i] /\ p = q /\ j = last /\ out'[p][j] = e
      BY <1>8, <1>9, <2>2, <3>2
    <3>3. CASE p = q /\ i = last /\ out'[p][i] = e
      <4>1. j = last
        BY <1>10, <1>11, <2>2, <3>3
      <4>. QED
        BY <1>11, <2>2, <3>3, <4>1
    <3>. QED
      BY <1>10, <3>1, <3>2, <3>3
  <2>3. ASSUME NEW p \in Appenders, NEW r \in Appenders, NEW i \in DOMAIN out'[p], NEW j \in DOMAIN out'[r],
               out'[p][i].whole, out'[r][j].whole, out'[p][i].id = out'[r][j].id
        PROVE  p = r /\ i = j
    <3>1. CASE i \in DOMAIN out[p] /\ out'[p][i] = out[p][i] /\ j \in DOMAIN out[r] /\ out'[r][j] = out[r][j]
      BY <2>3, <3>1 DEF OutInv
    <3>2. CASE i \in DOMAIN out[p] /\ out'[p][i] = out[p][i] /\ out'[r][j] = e
      <4>1. out[p][i].whole /\ out[p][i].id = l.id /\ l.next = 1
        BY <1>9, <2>3, <3>2
      <4>. QED
        BY <1>8, <3>2, <4>1
    <3>3. CASE out'[p][i] = e /\ j \in DOMAIN out[r] /\ out'[r][j] = out[r][j]
      <4>1. out[r][j].whole /\ out[r][j].id = l.id /\ l.next = 1
        BY <1>9, <2>3, <3>3
      <4>. QED
        BY <1>8, <3>3, <4>1
    <3>4. CASE p = q /\ i = last /\ r = q /\ j = last
      BY <3>4
    <3>. QED
      BY <1>10, <3>1, <3>2, <3>3, <3>4
  <2>. QED
    BY <1>10, <2>1, <2>2, <2>3 DEF OutInv
<1>13. \A s \in Threads : Opens(s)' <=> Opens(s)
  BY <1>7 DEF Opens, In, Of
<1>14. ASSUME NEW s \in Threads PROVE Latest(s)' /\ Unspent(s)'
  <2>1. CASE s = t
    <3>1. Latest(s)'
      <4>1. line'[s].id = l.id /\ line'[s].id <= lines' /\ at'[s].of = n
        BY <1>7, <1>8, <2>1 DEF n
      <4>2. ASSUME NEW p \in Appenders, NEW i \in DOMAIN out'[p], out'[p][i].of = n
            PROVE  out'[p][i].id <= l.id
        BY <1>2, <1>8, <1>9, <1>10, <4>2
      <4>. QED
        BY <4>1, <4>2 DEF Latest, In, Of
    <3>2. line'[s].next # 1
      BY <1>2, <1>7, <2>1
    <3>. QED
      BY <3>1, <3>2 DEF Unspent
  <2>2. CASE s # t
    <3>1. Latest(s) /\ Unspent(s) /\ line'[s] = line[s]
      BY <1>7, <2>2 DEF OpenInv
    <3>2. Latest(s)'
      BY <1>1, <1>7, <1>9, <1>10, <2>2, <3>1 DEF Latest, In, Of
    <3>3. Unspent(s)'
      BY <1>8, <1>9, <1>10, <1>13, <2>2, <3>1 DEF Unspent
    <3>. QED
      BY <3>2, <3>3
  <2>. QED
    BY <2>1, <2>2
<1>15. \A s \in Threads : line'[s].id = line[s].id
  BY <1>7 DEF l
<1>16. OpenInv'
  BY <1>13, <1>14, <1>15 DEF OpenInv
<1>. QED
  BY <1>12, <1>16

LEMMA LogLockKeepsOrder ==
  ASSUME LoggersInv, OutInv, OpenInv, NEW t \in Threads, LogLock(t)
  PROVE  OutInv' /\ OpenInv'
<1>. DEFINE n == at[t].of
<1>1. /\ n \in Names /\ listLock[n] = None /\ at[t].in = "wait"
      /\ at' = [at EXCEPT ![t] = [in |-> "write", of |-> n]]
      /\ out' = out /\ list' = list
      /\ lines' = lines + (IF list[n] # <<>> THEN 1 ELSE 0)
      /\ line' = [line EXCEPT ![t] = [id |-> lines', next |-> 1]]
  BY DEF LogLock, Begins, Goes, In, Of, LoggersInv, LoggersShape, LoggersControl, AtOK, AtNames
<1>2. lines \in Nat /\ line \in [Threads -> [id : Nat, next : Nat]]
  BY LoggersAssumption DEF LoggersInv, LoggersShape, CountsOK, LineOK
<1>3. /\ at'[t].in = "write" /\ at'[t].of = n /\ line'[t].id = lines'
      /\ \A u \in Threads \ {t} : at'[u] = at[u] /\ line'[u] = line[u]
  BY <1>1, <1>2 DEF LoggersInv, LoggersShape, AtOK
<1>4. lines' \in Nat /\ lines <= lines' /\ (list[n] # <<>> => lines < lines')
  BY <1>1, <1>2
<1>. HIDE DEF n
<1>5. \A p \in Appenders : \A i \in DOMAIN out[p] : out[p][i].id \in Nat /\ out[p][i].id <= lines
  <2>1. ASSUME NEW p \in Appenders, NEW i \in DOMAIN out[p] PROVE out[p][i] \in Entries
    BY DEF OutInv
  <2>. QED
    BY <2>1 DEF OutInv, Entries
<1>6. OutInv'
  BY <1>1, <1>2, <1>4, <1>5 DEF OutInv
<1>7. /\ Latest(t)'
      /\ Opens(t)' => lines < line'[t].id
  BY <1>1, <1>2, <1>3, <1>4, <1>5 DEF Latest, Opens, In, Of
<1>8. Unspent(t)'
  BY <1>1, <1>2, <1>3, <1>4, <1>5, <1>7 DEF Unspent
<1>9. ASSUME NEW u \in Threads \ {t}
      PROVE  Latest(u)' /\ Unspent(u)' /\ (Opens(u)' <=> Opens(u)) /\ (Opens(u) => line[u].id <= lines)
  BY <1>1, <1>2, <1>3, <1>4, <1>9 DEF OpenInv, Latest, Unspent, Opens, In, Of
<1>10. OpenInv'
  <2>1. ASSUME NEW u \in Threads \ {t}, Opens(t)', Opens(u)' PROVE line'[t].id # line'[u].id
    BY <1>2, <1>3, <1>4, <1>7, <1>9, <2>1
  <2>2. ASSUME NEW u \in Threads \ {t}, NEW v \in Threads \ {t}, u # v, Opens(v)', Opens(u)'
        PROVE  line'[v].id # line'[u].id
    BY <1>3, <1>9, <2>2 DEF OpenInv
  <2>. QED
    BY <1>7, <1>8, <1>9, <2>1, <2>2 DEF OpenInv
<1>. QED
  BY <1>6, <1>10

LEMMA LinesKept ==
  ASSUME LoggersInv, LinesInv, ~fault, NEW t \in Threads, LoggerCall(t) \/ LoggerStep(t)
  PROVE  LinesInv'
<1>. USE DEF LinesInv
<1>1. at \in [Threads -> [in : Places, of : Names \cup {None}]] /\ line \in [Threads -> [id : Nat, next : Nat]]
  BY DEF LoggersInv, LoggersShape, AtOK, LineOK
<1>2. CASE Write(t)
  BY <1>2, WriteKeepsOrder
<1>3. CASE LogLock(t)
  BY <1>3, LogLockKeepsOrder
<1>4. ASSUME out' = out, lines' = lines
      PROVE  OutInv'
  BY <1>4 DEF OutInv
<1>5. CASE Changed(t)
  <2>1. /\ out' = out /\ lines' = lines /\ line' = line
        /\ at[t].in = "change" /\ at[t].of \in Names
        /\ at' = [at EXCEPT ![t] = Idle]
    BY <1>5 DEF Changed, logVars, Returns, In, LoggersInv, LoggersShape, LoggersControl, AtOK, AtNames, Of
  <2>2. CASE listLock[at[t].of] # None
    BY <1>4, <1>5, <2>1, <2>2 DEF Changed, Of
  <2>3. CASE listLock[at[t].of] = None
    <3>1. \A s \in Threads : at[s].in = "write" => at[s].of # at[t].of
      BY <2>1, <2>3, LoggersAssumption DEF LoggersInv, LoggersControl, Writes, In, Of
    <3>2. \A m \in Names : m # at[t].of => list'[m] = list[m]
      BY <1>5 DEF Changed, Of, LoggersInv, LoggersShape, ListsOK
    <3>3. \A s \in Threads : at'[s].in = "write" => at'[s] = at[s] /\ at[s].of \in Names
      BY <1>1, <2>1 DEF Idle, LoggersInv, LoggersControl, AtNames, In, Of
    <3>. QED
      BY <1>4, <2>1, <3>1, <3>2, <3>3, OpenSame
  <2>. QED
    BY <2>2, <2>3
<1>6. ASSUME UNCHANGED <<out, lines, list>>, \A s \in Threads : s = t \/ line'[s] = line[s],
             \/ UNCHANGED at
             \/ \E place \in Places \ {"write"} : \E n : Goes(t, place, n),
             UNCHANGED at => line' = line
      PROVE  LinesInv'
  <2>1. \A s \in Threads : at'[s].in = "write" => at'[s] = at[s] /\ line'[s] = line[s]
    BY <1>1, <1>6 DEF Goes
  <2>. QED
    BY <1>4, <1>6, <2>1, OpenSame
<1>7. Returns(t) => Goes(t, "idle", None)
  BY DEF Returns, Goes, Idle
<1>8. {"idle", "find", "lock", "insert", "on", "level", "top", "change", "wait"} \subseteq Places \ {"write"}
  BY DEF Places
<1>9. CASE LogEnd(t)
  <2>1. UNCHANGED <<out, lines, list>> /\ Returns(t) /\ \A s \in Threads : s = t \/ line'[s] = line[s]
    BY <1>1, <1>9 DEF LogEnd
  <2>2. at' # at
    BY <1>1, <1>9 DEF LogEnd, Returns, Idle, In
  <2>. QED
    BY <1>6, <1>7, <1>8, <2>1, <2>2
<1>10. CASE Find(t) \/ FindAgain(t) \/ Insert(t) \/ SetField(t)
  <2>1. UNCHANGED <<out, lines, list, line>> /\ \E place \in Places \ {"write"} : \E n : Goes(t, place, n)
    BY <1>7, <1>8, <1>10 DEF Find, FindAgain, Insert, SetField, logVars
  <2>. QED
    BY <1>6, <2>1
<1>11. CASE LoggerCall(t)
  <2>1. UNCHANGED <<out, lines, list, line>>
        /\ (UNCHANGED at \/ \E place \in Places \ {"write"} : \E n : Goes(t, place, n))
    BY <1>8, <1>11 DEF LoggerCall, Get, Set, Fields, Change, Log, logVars
  <2>. QED
    BY <1>6, <2>1
<1>. QED
  BY <1>2, <1>3, <1>5, <1>9, <1>10, <1>11 DEF LoggerStep

LEMMA LinesInvariant == Spec => []LinesInv
<1>1. ASSUME DispatchInv, LinesInv, [Next]_vars PROVE LinesInv'
  <2>1. ASSUME UNCHANGED <<list, logVars, at, fault>> PROVE LinesInv'
    BY <1>1, <2>1 DEF logVars, LinesInv, OutInv, OpenInv, Latest, Unspent, Opens, In, Of
  <2>2. CASE UNCHANGED vars
    BY <2>1, <2>2 DEF vars, loggerVars, logVars
  <2>3. CASE Next
    BY <1>1, <2>1, <2>3, StepOfLoggers, LinesKept DEF Next, DispatchInv
  <2>. QED
    BY <1>1, <2>2, <2>3
<1>. QED
  BY LinesInit, <1>1, DispatchInvariant, PTL DEF Spec

(* Every appender gets the messages of a logger in one order, shared or    *)
(* not, whoever logs and however the lists change; and at most one line of *)
(* a message has all its arguments.                                        *)
THEOREM LinesAlwaysInOrder == Spec => []LinesInOrder
<1>1. ASSUME LoggersInv, LinesInv PROVE LinesInOrder
  <2>1. ASSUME NEW a \in 1..lines, NEW b \in 1..lines, GotBefore(a, b) PROVE a <= b
    <3>1. PICK p \in Appenders : \E j \in DOMAIN out[p] : \E i \in 1..(j - 1) :
            out[p][i].id = a /\ out[p][j].id = b /\ out[p][i].of = out[p][j].of
      BY <2>1 DEF GotBefore
    <3>2. PICK j \in DOMAIN out[p] : \E i \in 1..(j - 1) :
            out[p][i].id = a /\ out[p][j].id = b /\ out[p][i].of = out[p][j].of
      BY <3>1
    <3>3. PICK i \in 1..(j - 1) : out[p][i].id = a /\ out[p][j].id = b /\ out[p][i].of = out[p][j].of
      BY <3>2
    <3>4. out[p] \in Seq(Entries)
      BY <1>1 DEF LinesInv, OutInv
    <3>5. i \in DOMAIN out[p] /\ i < j
      BY <3>4
    <3>. QED
      BY <1>1, <3>3, <3>5 DEF LinesInv, OutInv
  <2>2. \A a, b \in 1..lines : a # b => ~(GotBefore(a, b) /\ GotBefore(b, a))
    <3>1. \A a, b \in 1..lines : a <= b /\ b <= a => a = b
      OBVIOUS
    <3>. QED
      BY <2>1, <3>1
  <2>3. ASSUME NEW a \in 1..lines PROVE Cardinality(Whole(a)) <= 1
    <3>1. \A x \in Whole(a) : \E p \in Appenders : \E i \in DOMAIN out[p] :
            x = <<p, i>> /\ out[p][i].id = a /\ out[p][i].whole
      BY DEF Whole
    <3>2. \A x, y \in Whole(a) : x = y
      BY <1>1, <3>1 DEF LinesInv, OutInv
    <3>3. CASE Whole(a) = {}
      BY <3>3, FS_EmptySet
    <3>4. ASSUME NEW x \in Whole(a) PROVE Cardinality(Whole(a)) <= 1
      <4>1. Whole(a) = {x}
        BY <3>2
      <4>. QED
        BY <4>1, FS_Singleton, SMTT(40)
    <3>. QED
      BY <3>3, <3>4
  <2>. QED
    BY <2>2, <2>3 DEF LinesInOrder
<1>. QED
  BY <1>1, LinesInvariant, DispatchInvariant, PTL DEF DispatchInv

=============================================================================
