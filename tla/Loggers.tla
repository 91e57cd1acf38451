------------------------------- MODULE Loggers -------------------------------
(***************************************************************************)
(* Loggers, found by name through singletons<logger>::get_instance and     *)
(* used by any thread: their configuration, and what a message they let    *)
(* through writes to which appender.  Two loggers may share an appender.   *)
(*                                                                         *)
(* get_instance looks into its map before it takes the mutex that guards   *)
(* the insertion, add_appender and clear_appender do not take the mutex    *)
(* under which log goes through the list, and enable, set_level and        *)
(* set_top_level write plain fields that log reads.  fault records that    *)
(* such accesses met, and nothing is said of what the program does then.   *)
(*                                                                         *)
(* What is in a line is LogText's, and files are LogFiles'.                *)
(***************************************************************************)
EXTENDS Integers, Sequences, FiniteSets

CONSTANTS
  Threads, None,
  Names,      (* names of loggers                                             *)
  Appenders,
  LevelNone,  (* the highest level, LEVEL_NONE; LEVEL_ALL, the lowest, is 0   *)
  MaxLines,   (* bound on the messages that get to an appender                *)
  MaxCalls    (* bound on the calls that configure something                  *)

ASSUME LoggersAssumption ==
  /\ None \notin Threads \cup Names
  /\ {LevelNone, MaxLines, MaxCalls} \subseteq Nat

VARIABLES
  instances,  (* the keys of get_instance's map                               *)
  lock,       (* the thread that holds get_instance's mutex                   *)
  conf,       (* conf[n]: m_enable, m_level and m_top_level of logger n       *)
  list,       (* list[n]: m_appenders                                         *)
  listLock,   (* listLock[n]: the thread that holds m_appenders_mutex         *)
  out,        (* out[p]: the lines appender p has been given                  *)
  at,         (* at[t]: where t is in a call, and of which logger             *)
  line,       (* line[t]: the message t writes, and the next appender's place *)
  lines,      (* how many messages have got to an appender                    *)
  calls,      (* how many configuring calls there have been                   *)
  fault       (* undefined behaviour has happened                             *)

mapVars == <<instances, lock>>
logVars == <<out, line, lines>>
loggerVars == <<instances, lock, conf, list, listLock, out, at, line, lines,
                calls, fault>>

Idle == [in |-> "idle", of |-> None]
NoLine == [id |-> 0, next |-> 0]

LoggersInit ==
  /\ instances = {}
  /\ lock = None
  /\ conf = [n \in Names |-> [on |-> TRUE, level |-> 0, top |-> LevelNone]]
  /\ list = [n \in Names |-> <<>>]
  /\ listLock = [n \in Names |-> None]
  /\ out = [p \in Appenders |-> <<>>]
  /\ at = [t \in Threads |-> Idle]
  /\ line = [t \in Threads |-> NoLine]
  /\ lines = 0
  /\ calls = 0
  /\ fault = FALSE

In(t, place) == at[t].in = place
Of(t) == at[t].of

Goes(t, place, n) == at' = [at EXCEPT ![t] = [in |-> place, of |-> n]]
Returns(t) == at' = [at EXCEPT ![t] = Idle]

Others(t, place) == {s \in Threads \ {t} : In(s, place)}

-----------------------------------------------------------------------------
(* singletons<logger>::get_instance *)

(* The logger is there, and nobody touches the map; or the look at the map *)
(* is a step of its own.  (One that an insertion overtakes is like one     *)
(* that begins during it.)                                                 *)
Get(t, n) ==
  /\ In(t, "idle")
  /\ \/ n \in instances /\ lock = None /\ UNCHANGED at
     \/ (n \notin instances \/ lock # None) /\ Goes(t, "find", n)
  /\ UNCHANGED <<mapVars, conf, list, listLock, logVars, calls, fault>>

(* instances.find(name), without the lock.                                 *)
Find(t) ==
  /\ In(t, "find")
  /\ \/ Of(t) \in instances /\ Returns(t)
     \/ Of(t) \notin instances /\ Goes(t, "lock", Of(t))
  /\ fault' \in {FALSE, Others(t, "insert") # {}}
  /\ UNCHANGED <<mapVars, conf, list, listLock, logVars, calls>>

FindAgainTrusts(t) ==  (* mutant of FindAgain: what the first look found still holds *)
  /\ In(t, "lock")
  /\ lock = None
  /\ Goes(t, "insert", Of(t)) /\ lock' = t
  /\ UNCHANGED <<instances, conf, list, listLock, logVars, calls, fault>>

(* Under the lock it looks again; another thread may have been faster.     *)
FindAgain(t) ==
  /\ In(t, "lock")
  /\ lock = None
  /\ \/ Of(t) \in instances /\ Returns(t) /\ UNCHANGED lock
     \/ Of(t) \notin instances /\ Goes(t, "insert", Of(t)) /\ lock' = t
  /\ UNCHANGED <<instances, conf, list, listLock, logVars, calls, fault>>

(* A new logger lets everything through, to nobody.                        *)
Insert(t) ==
  /\ In(t, "insert")
  /\ instances' = instances \cup {Of(t)}
  /\ lock' = None
  /\ fault' \in {FALSE, Others(t, "insert") # {}}
  /\ Returns(t)
  /\ UNCHANGED <<conf, list, listLock, logVars, calls>>

-----------------------------------------------------------------------------
(* Configuration *)

Levels == -1..(LevelNone + 1)

(* Levels outside of LEVEL_ALL to LEVEL_NONE count as the nearer of them.  *)
Clamp(level) == IF level > LevelNone THEN LevelNone ELSE IF level < 0 THEN 0 ELSE level

(* Anybody may have a reference to a logger that exists.                   *)
Configures(t, n) ==
  /\ In(t, "idle")
  /\ n \in instances
  /\ calls < MaxCalls
  /\ calls' = calls + 1

Fields == {"on", "level", "top"}

(* enable, set_level or set_top_level begins ...                           *)
Set(t, n) ==
  /\ Configures(t, n)
  /\ \E field \in Fields : Goes(t, field, n)
  /\ UNCHANGED <<mapVars, conf, list, listLock, logVars, fault>>

(* ... and stores its field, perhaps while another does.                   *)
SetField(t) ==
  /\ \/ In(t, "on") /\ \E on \in BOOLEAN : conf' = [conf EXCEPT ![Of(t)].on = on]
     \/ In(t, "level") /\ \E level \in Levels : conf' = [conf EXCEPT ![Of(t)].level = Clamp(level)]
     \/ In(t, "top") /\ \E level \in Levels : conf' = [conf EXCEPT ![Of(t)].top = Clamp(level)]
  /\ fault' \in {FALSE, \E s \in Others(t, at[t].in) : Of(s) = Of(t)}
  /\ Returns(t)
  /\ UNCHANGED <<mapVars, list, listLock, logVars, calls>>

(* add_appender or clear_appender begins ...                               *)
Change(t, n) ==
  /\ Configures(t, n)
  /\ Goes(t, "change", n)
  /\ UNCHANGED <<mapVars, conf, list, listLock, logVars, fault>>

(* ... and changes the vector: under the hands of a log that goes through  *)
(* it for certain, of another change if the two meet.                      *)
Changed(t) ==
  /\ In(t, "change")
  /\ \/ \E p \in Appenders : list' = [list EXCEPT ![Of(t)] = Append(@, p)]
     \/ list' = [list EXCEPT ![Of(t)] = <<>>]
  /\ fault' \in { listLock[Of(t)] # None \/ meets :
                    meets \in {FALSE, \E s \in Others(t, "change") : Of(s) = Of(t)} }
  /\ Returns(t)
  /\ UNCHANGED <<mapVars, conf, listLock, logVars, calls>>

-----------------------------------------------------------------------------
(* log and logf *)

Passes(n, level) ==
  conf[n].on /\ conf[n].level <= Clamp(level) /\ Clamp(level) <= conf[n].top

(* The fields the filter of a message reads.                               *)
Reads(n, level) ==
  {"on"} \cup (IF conf[n].on THEN {"level"} ELSE {})
    \cup (IF conf[n].on /\ conf[n].level <= Clamp(level) THEN {"top"} ELSE {})

(* They are read one by one; no property is about what gets through, so    *)
(* that is one step here, which may meet a store to any of them.           *)
Log(t, n, level) ==
  /\ In(t, "idle")
  /\ n \in instances
  /\ fault' \in {FALSE, \E s \in Threads \ {t} : at[s].in \in Reads(n, level) /\ Of(s) = n}
  /\ \/ Passes(n, level) /\ Goes(t, "wait", n)
     \/ ~Passes(n, level) /\ UNCHANGED at
  /\ UNCHANGED <<mapVars, conf, list, listLock, logVars, calls>>

(* A message that reaches an appender gets a number.                       *)
Begins(t) ==
  LET writes == list[Of(t)] # <<>>
  IN  /\ writes => lines < MaxLines
      /\ lines' = lines + (IF writes THEN 1 ELSE 0)
      /\ line' = [line EXCEPT ![t] = [id |-> lines', next |-> 1]]

LogLockNot(t) ==  (* mutant of LogLock: m_appenders_mutex not taken *)
  /\ In(t, "wait")
  /\ Begins(t)
  /\ Goes(t, "write", Of(t))
  /\ UNCHANGED <<mapVars, conf, list, listLock, out, calls, fault>>

LogLock(t) ==
  /\ In(t, "wait")
  /\ listLock[Of(t)] = None
  /\ listLock' = [listLock EXCEPT ![Of(t)] = t]
  /\ Begins(t)
  /\ Goes(t, "write", Of(t))
  /\ UNCHANGED <<mapVars, conf, list, out, calls, fault>>

(* write passes the arguments on to the appender's do_write, which has a   *)
(* mutex of its own.  forward moves them: what is of a class type, say a   *)
(* string, is printed by the first appender and empty in the others.       *)
(* whole: the line has all its arguments, whatever their types.            *)
Write(t) ==
  /\ In(t, "write")
  /\ LET l == line[t] IN
       /\ l.next <= Len(list[Of(t)])
       /\ out' = [out EXCEPT ![list[Of(t)][l.next]] =
                    Append(@, [id |-> l.id, of |-> Of(t), whole |-> l.next = 1])]
       /\ line' = [line EXCEPT ![t].next = l.next + 1]
  /\ UNCHANGED <<mapVars, conf, list, listLock, at, lines, calls, fault>>

LogEndKeepsLock(t) ==  (* mutant of LogEnd: the mutex stays locked *)
  /\ In(t, "write")
  /\ line[t].next > Len(list[Of(t)])
  /\ line' = [line EXCEPT ![t] = NoLine]
  /\ Returns(t)
  /\ UNCHANGED <<mapVars, conf, list, listLock, out, lines, calls, fault>>

LogEnd(t) ==
  /\ In(t, "write")
  /\ line[t].next > Len(list[Of(t)])
  /\ listLock' = [listLock EXCEPT ![Of(t)] = None]
  /\ line' = [line EXCEPT ![t] = NoLine]
  /\ Returns(t)
  /\ UNCHANGED <<mapVars, conf, list, out, lines, calls, fault>>

-----------------------------------------------------------------------------
LoggerCall(t) ==
  \E n \in Names :
    \/ Get(t, n) \/ Set(t, n) \/ Change(t, n)
    \/ \E level \in Levels : Log(t, n, level)

LoggerStep(t) ==
  \/ Find(t) \/ FindAgain(t) \/ Insert(t) \/ SetField(t) \/ Changed(t)
  \/ LogLock(t) \/ Write(t) \/ LogEnd(t)

-----------------------------------------------------------------------------
(* Properties *)

(* The types; each mutex is held exactly by the thread at work under it;   *)
(* and a logger is used and configured only once it exists.                *)
LoggersTypeOK ==
  /\ instances \subseteq Names
  /\ \A n \in Names : list[n] \in Seq(Appenders)
  /\ conf \in [Names -> [on : BOOLEAN, level : 0..LevelNone, top : 0..LevelNone]]
  /\ \A t \in Threads : at[t] = Idle \/ Of(t) \in Names
  /\ \A t \in Threads : lock = t <=> In(t, "insert")
  /\ \A t \in Threads, n \in Names : listLock[n] = t <=> In(t, "write") /\ Of(t) = n
  /\ \A t \in Threads :
       at[t].in \in Fields \cup {"change", "wait", "write"} => Of(t) \in instances
  /\ \A t \in Threads : line[t] # NoLine <=> In(t, "write")
  /\ lines \in 0..MaxLines /\ calls \in 0..MaxCalls
  /\ fault \in BOOLEAN

GotBefore(a, b) ==  (* of one logger's messages, by one appender *)
  \E p \in Appenders : \E j \in DOMAIN out[p] : \E i \in 1..(j - 1) :
    /\ out[p][i].id = a /\ out[p][j].id = b
    /\ out[p][i].of = out[p][j].of

Whole(a) ==
  UNION { {<<p, i>> : i \in {k \in DOMAIN out[p] : out[p][k].id = a /\ out[p][k].whole}} :
            p \in Appenders }

(* All appenders of a logger get its messages in the same order, shared or *)
(* not and however the list changed in between.  Of the lines of a message *)
(* at most one has all its arguments.                                      *)
LinesInOrder ==
  /\ \A a, b \in 1..lines : a # b => ~(GotBefore(a, b) /\ GotBefore(b, a))
  /\ \A a \in 1..lines : Cardinality(Whole(a)) <= 1

(* A logger is made once, however many threads have seen that it is not    *)
(* there: the one with the appenders is the one that everybody logs        *)
(* through.                                                                *)
CreatedOnce == \A t \in Threads : In(t, "insert") => Of(t) \notin instances

=============================================================================
