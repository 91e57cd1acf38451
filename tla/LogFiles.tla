------------------------------ MODULE LogFiles -------------------------------
(***************************************************************************)
(* One file object of the logger, infinite, truncated or splitted, rolled  *)
(* over by size and perhaps by time, and the loggers that write to it.     *)
(* A log call holds its logger's m_appenders_mutex throughout; a file      *)
(* object shared by two loggers has only its own mutex, which write takes  *)
(* after it has looked at the clock.                                       *)
(*                                                                         *)
(* Messages are numbered in the order in which they get that mutex.  Files *)
(* have the suffix of the time they are opened for, or none.  The clock    *)
(* does not go back.                                                       *)
(***************************************************************************)
EXTENDS Naturals, Sequences, SequencesExt, FiniteSets

CONSTANTS
  Writers,    (* threads that log                                            *)
  None,
  Limit,      (* m_truncate_size                                             *)
  Lengths,    (* lengths of messages                                         *)
  MaxTime,    (* bounds the clock                                            *)
  MaxWrites   (* bounds the writes                                           *)

ASSUME LogFilesAssumption ==
  /\ IsFiniteSet(Writers) /\ None \notin Nat
  /\ Limit \in Nat /\ Lengths \subseteq Nat \ {0}
  /\ MaxTime \in Nat /\ MaxWrites \in Nat

Times == 0..MaxTime

VARIABLES
  kind,     (* file_infinite, file_truncated or file_splitted                *)
  unit,     (* the roll-over time: "none", "hours" (or minutes), "seconds"   *)
  shared,   (* is the file object used by a logger per writer, or by one     *)
            (* logger for all?                                               *)
  clock,
  written,  (* the lengths of all messages that got the mutex                *)
  files,    (* files[s]: the messages in the file of suffix s                *)
  open,     (* the suffix of m_file, or None when it is not open             *)
  size,     (* m_file_size                                                   *)
  timeSet,  (* has m_file_open_time been set?                                *)
  call      (* call[w]: what w's write has found out before the mutex, or    *)
            (* None outside of write                                         *)

configVars == <<kind, unit, shared>>
fileVars == <<files, open, size, timeSet>>
vars == <<kind, unit, shared, clock, written, files, open, size, timeSet, call>>

Init ==
  /\ kind \in {"infinite", "truncated", "splitted"}
  /\ unit \in IF kind = "infinite" THEN {"none"} ELSE {"none", "hours", "seconds"}
  /\ shared \in BOOLEAN
  /\ clock = 0
  /\ written = <<>>
  /\ files = [s \in Times |-> <<>>]
  /\ open = None
  /\ size = 0
  /\ timeSet = FALSE
  /\ call = [w \in Writers |-> None]

Tick ==
  /\ clock < MaxTime
  /\ clock' = clock + 1
  /\ UNCHANGED <<configVars, fileVars, written, call>>

(* now >= m_file_open_time.  That is the beginning of time until it is     *)
(* set; then get_next_open_time has computed it from rel_time, a reference *)
(* that died with the constructor, so that it can be anything.             *)
TimeOut ==
  IF unit = "none" THEN {FALSE} ELSE IF timeSet THEN BOOLEAN ELSE {TRUE}

(* Mutant of Begin: log does not hold m_appenders_mutex.                   *)
BeginUnlocked(w) ==
  /\ call[w] = None
  /\ \E n \in Lengths, due \in TimeOut :
       call' = [call EXCEPT ![w] = [len |-> n, now |-> clock, due |-> due]]
  /\ UNCHANGED <<configVars, fileVars, clock, written>>

(* log: the logger's mutex; write: the clock.                              *)
Begin(w) ==
  /\ call[w] = None
  /\ ~shared => \A v \in Writers : call[v] = None
  /\ \E n \in Lengths, due \in TimeOut :
       call' = [call EXCEPT ![w] = [len |-> n, now |-> clock, due |-> due]]
  /\ UNCHANGED <<configVars, fileVars, clock, written>>

(* Mutant of RollsOver: the message to come is not counted.                *)
RollsOverLate(c) ==
  \/ open = None
  \/ kind # "infinite" /\ (size > Limit \/ c.due)

(* check_file: is the file to be opened (again)?                           *)
RollsOver(c) ==
  \/ open = None
  \/ kind # "infinite" /\ (size + c.len > Limit \/ c.due)

Suffix(c) == IF kind = "splitted" THEN c.now ELSE 0

(* Mutant of Opened: a splitted file is opened for appending.              *)
OpenedToAppend(c) ==
  IF kind = "truncated" THEN [files EXCEPT ![Suffix(c)] = <<>>] ELSE files

(* The files once the right one is open: only the infinite one is appended *)
(* to, the others are truncated.                                           *)
Opened(c) ==
  IF kind = "infinite" THEN files ELSE [files EXCEPT ![Suffix(c)] = <<>>]

EndsCall(w) == call' = [call EXCEPT ![w] = None]

(* A file of seconds has no get_postfix_from_time: when splitted it closes *)
(* its file and throws, and the message goes nowhere.                      *)
Throws(c) == kind = "splitted" /\ unit = "seconds"

(* The file is there, or is opened, and the message goes into it.          *)
Write(w) ==
  /\ call[w] # None
  /\ LET c == call[w]
         id == Len(written) + 1
         to == IF RollsOver(c) THEN Suffix(c) ELSE open
         base == IF RollsOver(c) THEN Opened(c) ELSE files
     IN  /\ RollsOver(c) => ~Throws(c)
         /\ Len(written) < MaxWrites
         /\ written' = Append(written, c.len)
         /\ files' = [base EXCEPT ![to] = Append(@, id)]
         /\ open' = to
         /\ size' = (IF RollsOver(c) /\ kind # "infinite" THEN 0 ELSE size) + c.len
         /\ timeSet' = (timeSet \/ c.due)
  /\ EndsCall(w)
  /\ UNCHANGED <<configVars, clock>>

(* The file cannot be opened, or has no name: the message is dropped.      *)
Drop(w) ==
  /\ call[w] # None
  /\ RollsOver(call[w])
  /\ Len(written) < MaxWrites
  /\ written' = Append(written, call[w].len)
  /\ open' = None
  /\ size' = IF kind = "infinite" \/ Throws(call[w]) THEN size ELSE 0
  /\ EndsCall(w)
  /\ UNCHANGED <<configVars, clock, files, timeSet>>

Next == Tick \/ \E w \in Writers : Begin(w) \/ Write(w) \/ Drop(w)

Spec == Init /\ [][Next]_vars

-----------------------------------------------------------------------------
(* Properties *)

Total(s) == FoldLeft(LAMBDA sum, id : sum + written[id], 0, files[s])

(* The types, and m_file_size is the length of the open file.              *)
LogTypeOK ==
  /\ clock \in Times
  /\ written \in Seq(Lengths) /\ Len(written) <= MaxWrites
  /\ \A s \in Times : \A i \in DOMAIN files[s] : files[s][i] \in DOMAIN written
  /\ open \in Times \cup {None}
  /\ open # None => size = Total(open)
  /\ \A w \in Writers :
       call[w] = None \/ call[w] \in [len : Lengths, now : 0..clock, due : BOOLEAN]

(* A file holds messages that were written one right after the other, in   *)
(* that order, whoever wrote them and however often it was rolled over;    *)
(* and if it does roll over, no more of them than Limit allows, but for a  *)
(* single message that is longer.                                          *)
FilesAreSegments ==
  \A s \in Times :
    /\ \A i \in 1..(Len(files[s]) - 1) : files[s][i + 1] = files[s][i] + 1
    /\ kind # "infinite" /\ Len(files[s]) > 1 => Total(s) <= Limit

(* Through one logger the splitted files are in order: what is in a file   *)
(* of a later suffix was written later.  (Two loggers can get the file's   *)
(* mutex in another order than they looked at the clock.)                  *)
FilesInOrder ==
  ~shared =>
    \A s \in Times, t \in Times :
      s < t => \A i \in DOMAIN files[s], j \in DOMAIN files[t] : files[s][i] < files[t][j]

=============================================================================
