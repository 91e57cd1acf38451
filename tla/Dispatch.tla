------------------------------- MODULE Dispatch -------------------------------
(***************************************************************************)
(* How an actor finds the function that handles a message: its table of    *)
(* handlers, kept by the types of their parameters, and call(), which logs *)
(* through the logger "actor" on the way.  Only the constructor and the    *)
(* running handler use the table, one thread at a time (Mailboxes'         *)
(* OneOwner).  The hash of a parameter list stands for the list: that two  *)
(* lists share one is left out.                                            *)
(***************************************************************************)
EXTENDS Loggers

CONSTANTS
  ActorLog,  (* the name "actor"                                              *)
  Types,     (* what a message consists of                                    *)
  Funcs      (* the program's functions                                       *)

(* Parameters taken by value or by reference; send() takes its arguments   *)
(* by value, actor_system::send the way its caller passes them.            *)
Signatures == [type : Types, ref : BOOLEAN]

ASSUME DispatchAssumption ==
  /\ ActorLog \in Names
  /\ None \notin Funcs \cup Signatures

VARIABLES
  handlers,  (* handlers[s]: the function m_handlers has for signature s      *)
  regs,      (* history: regs[s]: the calls of handle and unhandle for s,     *)
             (* with the function, or None                                    *)
  phase,     (* where the constructor or call() is                            *)
  runner,    (* the thread in it                                              *)
  msg,       (* the message call() is for                                     *)
  running    (* the function call() has found                                 *)

tableVars == <<handlers, regs>>
callVars == <<phase, runner, msg, running>>
vars == <<loggerVars, tableVars, callVars>>

Init ==
  /\ LoggersInit
  /\ handlers = [s \in Signatures |-> None]
  /\ regs = [s \in Signatures |-> <<>>]
  /\ phase = "construct"
  /\ runner \in Threads
  /\ msg = None
  /\ running = None

UserCode(t) == In(t, "idle") /\ (runner = t => phase \in {"construct", "run"})

-----------------------------------------------------------------------------
(* handle and unhandle *)

Registers(t, s, f) ==
  /\ runner = t /\ UserCode(t)
  /\ calls < MaxCalls
  /\ calls' = calls + 1
  /\ regs' = [regs EXCEPT ![s] = Append(@, f)]
  /\ UNCHANGED <<mapVars, conf, list, listLock, logVars, at, fault, callVars>>

EmplaceOver(s, f) == handlers' = [handlers EXCEPT ![s] = f]  (* mutant of Emplace: m[s] = f *)

(* m_handlers.emplace keeps what is there.                                 *)
Emplace(s, f) ==
  \/ handlers[s] = None /\ handlers' = [handlers EXCEPT ![s] = f]
  \/ handlers[s] # None /\ UNCHANGED handlers

Handle(t, s, f) == Registers(t, s, f) /\ Emplace(s, f)

(* If that is the handler which is running, its function object is gone;   *)
(* nothing of it is used any more once it has been called.                 *)
Unhandle(t, s) == Registers(t, s, None) /\ handlers' = [handlers EXCEPT ![s] = None]

-----------------------------------------------------------------------------
(* call *)

Ends ==
  /\ phase' = "free"
  /\ runner' = None
  /\ msg' = None
  /\ running' = None

(* The constructor, or a handler, returns.                                 *)
Return(t) ==
  /\ runner = t /\ UserCode(t)
  /\ Ends
  /\ UNCHANGED <<loggerVars, tableVars>>

(* get_instance("actor").                                                  *)
Call(t, m) ==
  /\ phase = "free"
  /\ Get(t, ActorLog)
  /\ phase' = "logger"
  /\ runner' = t
  /\ msg' = m
  /\ UNCHANGED <<tableVars, running>>

(* One line before the look-up; one after it, or several, if nothing was   *)
(* found; at levels that are left open.                                    *)
Says(t) == \E level \in Levels : Log(t, ActorLog, level)

Starts(t) ==
  /\ runner = t /\ phase = "logger"
  /\ Says(t)
  /\ phase' = "search"
  /\ UNCHANGED <<tableVars, runner, msg, running>>

Search(t) ==
  /\ runner = t /\ phase = "search"
  /\ Says(t)
  /\ running' = handlers[msg]
  /\ phase' = "found"
  /\ UNCHANGED <<tableVars, runner, msg>>

(* caller::operator() takes its arguments by value, and compares the hash  *)
(* of those types: a handler found for references is not called, although  *)
(* call() returns true.                                                    *)
Invoke(t) ==
  /\ runner = t /\ phase = "found" /\ In(t, "idle")
  /\ \/ running # None /\ ~msg.ref /\ phase' = "run" /\ UNCHANGED <<runner, msg, running>>
     \/ (running = None \/ msg.ref) /\ Ends
  /\ UNCHANGED <<loggerVars, tableVars>>

-----------------------------------------------------------------------------
LoggerOnly(t) == (UserCode(t) /\ LoggerCall(t)) \/ LoggerStep(t)

Next ==
  /\ ~fault
  /\ \E t \in Threads :
       \/ LoggerOnly(t) /\ UNCHANGED <<tableVars, callVars>>
       \/ \E s \in Signatures :
            Call(t, s) \/ Unhandle(t, s) \/ \E f \in Funcs : Handle(t, s, f)
       \/ Starts(t) \/ Search(t) \/ Invoke(t) \/ Return(t)

Spec == Init /\ [][Next]_vars

-----------------------------------------------------------------------------
(* Properties *)

(* The types; a thread is in the actor exactly while one is at work there, *)
(* and the function that runs is one of the program's.                     *)
DispatchTypeOK ==
  /\ LoggersTypeOK
  /\ handlers \in [Signatures -> Funcs \cup {None}]
  /\ phase \in {"construct", "free", "logger", "search", "found", "run"}
  /\ runner \in Threads \cup {None}
  /\ runner = None <=> phase = "free"
  /\ msg \in Signatures <=> phase \notin {"construct", "free"}
  /\ phase = "run" => running \in Funcs

(* The function the program means for a message: the first it registered   *)
(* for exactly these parameters since it last took them back, if any.      *)
Meant(s) ==
  LET first == {i \in DOMAIN regs[s] :
                  /\ i = 1 \/ regs[s][i - 1] = None
                  /\ \A j \in i..Len(regs[s]) : regs[s][j] # None}
  IN  IF first = {} THEN None ELSE regs[s][CHOOSE i \in first : TRUE]

(* That function runs, and no other; none, if the message came by          *)
(* reference.                                                              *)
HandledAsMeant ==
  [][phase = "found" /\ phase' # "found" =>
       running' = IF msg.ref THEN None ELSE Meant(msg)]_vars

=============================================================================
