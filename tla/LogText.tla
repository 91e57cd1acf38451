------------------------------- MODULE LogText -------------------------------
(***************************************************************************)
(* log_to_stream: how an appender's format and the arguments of a log call *)
(* become a line.  The loop over the format is a step per directive; with  *)
(* the last argument gone, the function goes on as its overload without    *)
(* arguments, which treats unknown directives differently.  Characters are *)
(* "%", the letters of the directives and one letter that is none.         *)
(*                                                                         *)
(* Reference says, position by position, what the line should be.  The     *)
(* names of log files are made by LogPaths, meanwhile.                     *)
(***************************************************************************)
EXTENDS LogPaths, Integers

CONSTANTS
  Tags,       (* letters that stand for data of the call, as in %T and %N    *)
  Plain,      (* letters that mean nothing                                   *)
  Args,       (* the arguments: the sequences to try                         *)
  MaxLength   (* bounds the formats                                          *)

Chars == Tags \cup Plain \cup {"%", "L", "m", "M"}

ASSUME LogTextAssumption ==
  /\ {"%", "L", "m", "M"} \cap (Tags \cup Plain) = {} /\ Tags \cap Plain = {}
  /\ Args \subseteq Seq(UNION {Range(a) : a \in Args}) /\ MaxLength \in Nat

VARIABLES
  fmt,      (* the format                                                    *)
  given,    (* the arguments of the call                                     *)
  args,     (* the arguments not printed yet                                 *)
  at,       (* the format pointer                                            *)
  out,      (* what has been printed                                         *)
  level     (* the level of the call, any int                                *)

textVars == <<fmt, given, args, at, out, level>>
vars == <<textVars, pathVars>>

(* Every short format with any arguments, every level, and every path.     *)
LOG == 40
Init ==
  /\ \/ fmt \in BoundedSeq(Chars, MaxLength) /\ given \in Args /\ level = LOG /\ NoPath
     \/ fmt = <<"%", "L">> /\ given = <<>> /\ level \in -5..105 /\ NoPath
     \/ fmt = <<>> /\ given = <<>> /\ level = LOG /\ PathInit
  /\ args = given
  /\ at = 1
  /\ out = <<>>

Prints(s) == out' = out \o s

-----------------------------------------------------------------------------
(* Names of levels *)

TRACE == 10
FATAL == 70
Name ==
  [l \in {10, 20, 30, 40, 50, 60, 70} |->
     <<"TRACE", "DEBUG", "INFO", "LOG", "WARN", "ERROR", "FATAL">>[l \div 10]]
Named == DOMAIN Name

(* log clamps the level to LEVEL_ALL and LEVEL_NONE.                       *)
Clamp(l) == IF l > 100 THEN 100 ELSE IF l < 0 THEN 0 ELSE l

(* level_to_name: a level between two named ones has the name of the one   *)
(* below and a "+" up to half way, or the one above and a "-".             *)
LevelName(l) ==
  LET up == CHOOSE b \in Named : l <= b /\ b < l + 10
  IN  CASE l \in Named -> <<Name[l]>>
        [] l < TRACE   -> <<Name[TRACE], "-">>
        [] l > FATAL   -> <<Name[FATAL], "+">>
        [] OTHER       -> IF l < up - (up - (up - 10)) \div 2
                          THEN <<Name[up - 10], "+">>
                          ELSE <<Name[up], "-">>

-----------------------------------------------------------------------------
Letter ==
  /\ at <= Len(fmt) /\ fmt[at] # "%"
  /\ Prints(<<fmt[at]>>)
  /\ at' = at + 1
  /\ UNCHANGED <<fmt, given, args, level, pathVars>>

(* The pointer moves to the character after the %, and then past it.       *)
Directive(letters) ==
  /\ at < Len(fmt) /\ fmt[at] = "%"
  /\ fmt[at + 1] \in letters
  /\ at' = at + 2
  /\ UNCHANGED <<fmt, given, level, pathVars>>

Tag ==
  /\ Directive(Tags \cup {"%"})
  /\ Prints(<<fmt[at + 1]>>)
  /\ UNCHANGED args

Level ==
  /\ Directive({"L"})
  /\ Prints(LevelName(Clamp(level)))
  /\ UNCHANGED args

(* Mutant of Value: the argument stays the next one.                       *)
ValueAgain ==
  /\ Directive({"m"})
  /\ IF args = <<>> THEN Prints(<<"%", "m">>) ELSE Prints(<<Head(args)>>)
  /\ UNCHANGED args

(* %m: the next argument, and the rest of the format with the others.      *)
Value ==
  /\ Directive({"m"})
  /\ IF args = <<>>
     THEN Prints(<<"%", "m">>) /\ UNCHANGED args
     ELSE Prints(<<Head(args)>>) /\ args' = Tail(args)

(* %M: all the arguments left, which stay.                                 *)
Values ==
  /\ Directive({"M"})
  /\ Prints(IF args = <<>> THEN <<"%", "M">> ELSE args)
  /\ UNCHANGED args

(* Any other letter is printed by the overload without arguments only.     *)
Unknown ==
  /\ Directive(Plain)
  /\ Prints(IF args = <<>> THEN <<"%", fmt[at + 1]>> ELSE <<>>)
  /\ UNCHANGED args

(* A % at the end: the pointer moves to the terminator, and then past it,  *)
(* where the loop goes on reading.                                         *)
LonePercent ==
  /\ at = Len(fmt) /\ fmt[at] = "%"
  /\ at' = at + 2
  /\ UNCHANGED <<fmt, given, args, out, level, pathVars>>

Next ==
  \/ Letter \/ Tag \/ Level \/ Value \/ Values \/ Unknown \/ LonePercent
  \/ PathNext /\ UNCHANGED textVars

Spec == Init /\ [][Next]_vars

-----------------------------------------------------------------------------
(* Reference *)

(* A % begins a directive unless it ends one: an even number of them is    *)
(* just before it.                                                         *)
Run(i) == CHOOSE k \in 0..(i - 1) :
            /\ \A j \in (i - k)..(i - 1) : fmt[j] = "%"
            /\ k < i - 1 => fmt[i - k - 1] # "%"
Begins(i) == i \in DOMAIN fmt /\ fmt[i] = "%" /\ Run(i) % 2 = 0
Ends(i) == i > 1 /\ Begins(i - 1)

(* The arguments that the %m before i have left.                           *)
Left(i) ==
  LET used == Cardinality({j \in 1..(i - 1) : Ends(j) /\ fmt[j] = "m"})
  IN  SubSeq(given, used + 1, Len(given))

(* The named level at the least distance, the higher of two, and on which  *)
(* side of it the level is.                                                *)
Distance(a, b) == IF a < b THEN b - a ELSE a - b
Nearest(l) ==
  LET n == CHOOSE b \in Named :
             \A c \in Named : \/ Distance(l, b) < Distance(l, c)
                              \/ Distance(l, b) = Distance(l, c) /\ c <= b
  IN  <<Name[n]>> \o (IF l > n THEN <<"+">> ELSE IF l < n THEN <<"-">> ELSE <<>>)

Piece(i) ==
  CASE Begins(i) -> <<>>
    [] ~Begins(i) /\ ~Ends(i) -> <<fmt[i]>>
    [] Ends(i) /\ fmt[i] \in Tags \cup {"%"} -> <<fmt[i]>>
    [] Ends(i) /\ fmt[i] = "L" -> Nearest(Clamp(level))
    [] Ends(i) /\ fmt[i] = "m" /\ Left(i) # <<>> -> <<Head(Left(i))>>
    [] Ends(i) /\ fmt[i] = "M" /\ Left(i) # <<>> -> Left(i)
    [] Ends(i) /\ fmt[i] \in Plain /\ Left(i) # <<>> -> <<>>
    [] OTHER -> <<"%", fmt[i]>>

Reference == FlattenSeq([i \in 1..Len(fmt) |-> Piece(i)])

-----------------------------------------------------------------------------
(* Properties *)

(* The line is the one Reference says: directives and escaped percent      *)
(* signs are told apart however they follow one another, arguments go to   *)
(* the %m's one by one until there are none, and a level is called after   *)
(* the nearest named one.  The loop leaves the format exactly when it ends *)
(* in a % that begins a directive.                                         *)
LineAsMeant ==
  /\ at = Len(fmt) + 1 => out = Reference /\ ~Begins(Len(fmt))
  /\ at > Len(fmt) + 1 => Begins(Len(fmt))

=============================================================================
