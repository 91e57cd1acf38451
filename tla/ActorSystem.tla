----------------------------- MODULE ActorSystem -----------------------------
(***************************************************************************)
(* class actor_system: Mailboxes behind the registry.  Actors are spawned, *)
(* found again by every send, and stopped, by any thread at any time.      *)
(*                                                                         *)
(* m_lock_maps guards the maps, but send_as looks at the entry it found    *)
(* after releasing it, and erase_actor clears a mailbox without the        *)
(* mailbox's own mutex.  Both can meet undefined behaviour; fault records  *)
(* that one did, and nothing is said of what the program does then.  Whose *)
(* name a message carries is left to Mailboxes: clients send(), handlers   *)
(* send as themselves.                                                     *)
(***************************************************************************)
EXTENDS Mailboxes

CONSTANT Names  (* the names an actor can have, given or generated *)

ASSUME ActorSystemAssumption ==
  /\ None \notin Names \cup Threads
  /\ IsFiniteSet(Threads)

VARIABLES
  nameOf,  (* nameOf[a]: the name in a's actor_local_id, None before spawn    *)
  reg,     (* the keys of m_actors                                            *)
  names,   (* m_name_id_map                                                   *)
  holder,  (* the thread that holds m_lock_maps from one step to another      *)
  regAt,   (* regAt[t]: where t is in send_as up to the push, or in stop      *)
  regOn,   (* regOn[t]: the actor that call is about                          *)
  raced,   (* an actor has been stopped that another thread was using         *)
  fault    (* undefined behaviour has happened                                *)

regVars == <<nameOf, reg, names>>
faultVars == <<raced, fault>>
sysVars == <<nameOf, reg, names, holder, regAt, regOn, raced, fault>>
allVars == <<vars, sysVars>>

SystemInit ==
  /\ Init
  /\ nameOf = [a \in Actors |-> None]
  /\ reg = {}
  /\ names = [n \in Names |-> None]
  /\ holder = None
  /\ regAt = [t \in Threads |-> "idle"]
  /\ regOn = [t \in Threads |-> None]
  /\ raced = FALSE
  /\ fault = FALSE

Spawned == {a \in Actors : nameOf[a] # None}

(* t runs the program's own code: a client, or a worker in a handler.      *)
UserCode(t) ==
  /\ regAt[t] = "idle"
  /\ callAt[t] = "idle"
  /\ t \in Workers => jobAt[t] = "handle"

At(t, at, a) ==
  /\ regAt' = [regAt EXCEPT ![t] = at]
  /\ regOn' = [regOn EXCEPT ![t] = a]

-----------------------------------------------------------------------------
(* Who keeps an actor_local_id, a mailbox and an actor object alive *)

(* send_as has copied all three of a's pointers and has not returned.      *)
HoldsBundle(t, a) ==
  \/ regAt[t] = "push" /\ regOn[t] = a
  \/ /\ callAt[t] # "idle"
     /\ callOn[t] = a
     /\ t \in Workers => jobAt[t] = "handle"

(* The weak_ptr of an actor_address can be locked.                         *)
ValidAddress(a) == a \in reg \/ \E t \in Threads : HoldsBundle(t, a)

(* pool_mailbox's argument and its lambda hold the mailbox as well.        *)
MailboxAlive(a) ==
  \/ ValidAddress(a)
  \/ Queued(a)
  \/ \E t \in Threads : callOn[t] = a
  \/ \E w \in Workers : jobOn[w] = a

(* Every closure, waiting or running, holds the actor object.              *)
ActorAlive(a) ==
  \/ ValidAddress(a)
  \/ MailboxAlive(a) /\ mbox[a] # <<>>
  \/ Running[a] # {}

-----------------------------------------------------------------------------
(* spawn *)

(* add_actor: both emplace calls under m_lock_maps; a name that is taken   *)
(* keeps its first owner.  set_self follows before anyone knows a.         *)
Spawn(t, a, n) ==
  /\ UserCode(t)
  /\ holder = None
  /\ a \notin Spawned
  /\ nameOf' = [nameOf EXCEPT ![a] = n]
  /\ reg' = reg \cup {a}
  /\ \/ names[n] = None /\ names' = [names EXCEPT ![n] = a]
     \/ names[n] # None /\ UNCHANGED names
  /\ UNCHANGED <<vars, holder, regAt, regOn, faultVars>>

-----------------------------------------------------------------------------
(* send_as, up to the push; the rest is Mailboxes' *)

InSend(t) == regAt[t] \in {"lookup", "deref", "push"}

(* The bound MaxSends counts the calls under way.                          *)
CallSend(t, a) ==
  /\ UserCode(t)
  /\ a \in Spawned
  /\ sent + Cardinality({s \in Threads : InSend(s)}) < MaxSends
  /\ At(t, "lookup", a)
  /\ UNCHANGED <<vars, regVars, holder, faultVars>>

LookupUnlocked(t) ==  (* mutant of Lookup: m_lock_maps not taken *)
  /\ regAt[t] = "lookup"
  /\ \/ regOn[t] \in reg /\ At(t, "deref", regOn[t])
     \/ regOn[t] \notin reg /\ At(t, "idle", None)
  /\ UNCHANGED <<vars, regVars, holder, faultVars>>

(* get_actor_bundle: m_actors.find(id), under m_lock_maps.  If it is not   *)
(* there, send_as logs a warning and returns.                              *)
Lookup(t) ==
  /\ regAt[t] = "lookup"
  /\ holder = None
  /\ \/ regOn[t] \in reg /\ At(t, "deref", regOn[t])
     \/ regOn[t] \notin reg /\ At(t, "idle", None)
  /\ UNCHANGED <<vars, regVars, holder, faultVars>>

DerefStale(t) ==  (* mutant of Deref: a freed entry is used as it was *)
  /\ regAt[t] = "deref"
  /\ At(t, "push", regOn[t])
  /\ UNCHANGED <<vars, regVars, holder, faultVars>>

(* It copies the three pointers out of *iter after releasing the lock: by  *)
(* then the entry may have been erased and freed.  (By the C++ standard an *)
(* emplace of spawn may rehash m_actors in between, which invalidates the  *)
(* iterator too.  In libc++, which the build asks for, an iterator is a    *)
(* pointer to the entry and outlives that; the model takes it so.)         *)
Deref(t) ==
  /\ regAt[t] = "deref"
  /\ \/ regOn[t] \in reg /\ At(t, "push", regOn[t]) /\ UNCHANGED fault
     \/ regOn[t] \notin reg /\ fault' = TRUE /\ UNCHANGED <<regAt, regOn>>
  /\ UNCHANGED <<vars, regVars, holder, raced>>

(* m_mailbox.clear() is under way, or about to be.                         *)
Clearing(a) == \E t \in Threads : regAt[t] = "clear" /\ regOn[t] = a

(* push_back and pop_front hold the mailbox's mutex, but clear() does not: *)
(* they come before it, or meet it.                                        *)
MeetsClear(a) == fault' \in {FALSE, Clearing(a)}

PushMessage(t) ==
  /\ regAt[t] = "push"
  /\ Push(t, regOn[t], IF t \in Workers THEN jobOn[t] ELSE None)
  /\ At(t, "idle", None)
  /\ MeetsClear(regOn[t])
  /\ UNCHANGED <<regVars, holder, raced>>

PopMessage(w) ==
  /\ Pop(w)
  /\ MeetsClear(jobOn[w])
  /\ UNCHANGED <<regVars, holder, regAt, regOn, raced>>

-----------------------------------------------------------------------------
(* stop *)

(* Nobody but t has found a and may still look at its entry or push to its *)
(* mailbox, drains it or is about to.  A thread that is still to take      *)
(* m_lock_maps does not count.                                             *)
Quiet(t, a) ==
  /\ ~Queued(a)
  /\ \A s \in Threads \ {t} :
       callOn[s] # a /\ (regOn[s] = a => regAt[s] \in {"lookup", "stop"})
  /\ \A w \in Workers \ {t} : jobOn[w] # a

(* is_local() holds, and the conversion of the address makes a copy of the *)
(* actor_local_id: from here on stop only has an id and a name.            *)
CallStop(t, a) ==
  /\ UserCode(t)
  /\ a \in Spawned /\ ValidAddress(a)
  /\ At(t, "stop", a)
  /\ UNCHANGED <<vars, regVars, holder, faultVars>>

(* erase_actor takes m_lock_maps.  If the actor is no longer registered,   *)
(* the mailbox is left alone.                                              *)
StopLock(t) ==
  /\ regAt[t] = "stop"
  /\ holder = None
  /\ holder' = t
  /\ At(t, IF regOn[t] \in reg THEN "clear" ELSE "erase", regOn[t])
  /\ raced' = (raced \/ ~Quiet(t, regOn[t]))
  /\ UNCHANGED <<vars, regVars, fault>>

ClearSkipped(t) ==  (* mutant of Clear: the mailbox is left as it is *)
  /\ regAt[t] = "clear"
  /\ At(t, "erase", regOn[t])
  /\ UNCHANGED <<vars, regVars, holder, faultVars>>

(* get<1>(iter->second)->clear().                                          *)
Clear(t) ==
  /\ regAt[t] = "clear"
  /\ mbox' = [mbox EXCEPT ![regOn[t]] = <<>>]
  /\ At(t, "erase", regOn[t])
  /\ UNCHANGED <<inPool, jobs, callVars, jobVars, sender, sent, regVars, holder, faultVars>>

EraseKeepsName(t) ==  (* mutant of Erase: m_name_id_map not updated *)
  /\ regAt[t] = "erase"
  /\ reg' = reg \ {regOn[t]}
  /\ holder' = None
  /\ At(t, "idle", None)
  /\ UNCHANGED <<vars, nameOf, names, faultVars>>

EraseKeepsLock(t) ==  (* mutant of Erase: m_lock_maps is not released *)
  /\ regAt[t] = "erase"
  /\ names' = [names EXCEPT ![nameOf[regOn[t]]] = None]
  /\ reg' = reg \ {regOn[t]}
  /\ At(t, "idle", None)
  /\ UNCHANGED <<vars, nameOf, holder, faultVars>>

(* Both erase calls, the second of which drops the registry's pointers,    *)
(* and the end of the critical section.                                    *)
Erase(t) ==
  /\ regAt[t] = "erase"
  /\ names' = [names EXCEPT ![nameOf[regOn[t]]] = None]
  /\ reg' = reg \ {regOn[t]}
  /\ holder' = None
  /\ At(t, "idle", None)
  /\ UNCHANGED <<vars, nameOf, faultVars>>

-----------------------------------------------------------------------------
UserStep(t) ==
  \E a \in Actors :
    \/ CallSend(t, a)
    \/ CallStop(t, a)
    \/ \E n \in Names : Spawn(t, a, n)

RegistryStep(t) ==
  \/ Lookup(t) \/ Deref(t) \/ PushMessage(t)
  \/ StopLock(t) \/ Clear(t) \/ Erase(t)

(* The steps of Mailboxes that the registry does not touch.                *)
PoolStep(t) == CallStep(t) /\ UNCHANGED sysVars

WorkerStep(w) ==
  \/ PopMessage(w)
  \/ /\ \/ TakeJob(w) \/ Enter(w) \/ RunBegin(w)
        \/ Leave(w) \/ Recheck(w) \/ Retire(w)
     /\ UNCHANGED sysVars

(* A handler does not return while it is inside a call.                    *)
HandlerReturns(w) == regAt[w] = "idle" /\ RunEnd(w) /\ UNCHANGED sysVars

SystemNext ==
  /\ ~fault
  /\ \/ \E t \in Threads : UserStep(t) \/ RegistryStep(t) \/ PoolStep(t)
     \/ \E w \in Workers : WorkerStep(w) \/ HandlerReturns(w)

SystemSpec == SystemInit /\ [][SystemNext]_allVars

-----------------------------------------------------------------------------
(* Properties *)

(* The types, and which values go together: the lock is held exactly from  *)
(* taking it in stop to the end of erase_actor.                            *)
RegistryOK ==
  /\ nameOf \in [Actors -> Names \cup {None}]
  /\ reg \subseteq Spawned
  /\ names \in [Names -> Actors \cup {None}]
  /\ holder \in Threads \cup {None}
  /\ regAt \in [Threads -> {"idle", "lookup", "deref", "push", "stop", "clear", "erase"}]
  /\ regOn \in [Threads -> Actors \cup {None}]
  /\ \A t \in Threads :
       /\ regAt[t] # "idle" <=> regOn[t] # None
       /\ regAt[t] \in {"clear", "erase"} <=> holder = t
       /\ regAt[t] # "idle" => regOn[t] \in Spawned /\ callAt[t] = "idle"
  /\ \A w \in Workers : regAt[w] # "idle" => jobAt[w] = "handle"
  /\ raced \in BOOLEAN
  /\ fault \in BOOLEAN

SystemTypeOK == TypeOK /\ RegistryOK

(* Unless an actor is stopped while another thread that has found it is    *)
(* still sending to it or drains its mailbox, the reads after the lock and *)
(* the clear() without the mailbox's mutex are harmless; in particular a   *)
(* handler may stop its own actor, and anyone an idle one.                 *)
QuietStopsAreSafe == fault => raced

(* A stopped actor's messages only get fewer: what is in its mailbox, and  *)
(* what senders that found it before are still to push.  No send that      *)
(* looks it up afterwards gets through.                                    *)
Outstanding(a) ==
  Len(mbox[a]) + Cardinality({t \in Threads : regAt[t] = "push" /\ regOn[t] = a})

StopEndsInflow ==
  [][\A a \in Spawned \ reg : Outstanding(a)' <= Outstanding(a)]_allVars

(* m_name_id_map leads to registered actors of that name only, and to every *)
(* one of them that shares its name with nobody.                            *)
NamesMatch ==
  /\ \A n \in Names : names[n] # None => names[n] \in reg /\ nameOf[names[n]] = n
  /\ \A a \in reg :
       (\A b \in Spawned : nameOf[b] = nameOf[a] => b = a) => names[nameOf[a]] = a

(* The whole library is one FIFO queue per actor, which stop empties once; *)
(* the abstract Stop is the clear() of erase_actor.                        *)
Cleared == (Spawned \ reg) \cup {regOn[t] : t \in {s \in Threads : regAt[s] = "erase"}}

System == INSTANCE ActorModel
            WITH queue <- mbox, running <- Running, stopped <- Cleared

SystemImplementsActorModel == System!Spec

(* What the tests say of stop: when it returns, the actor's destructor has *)
(* run and its address is no longer valid (test_actor.cpp).                *)
StopDestroys == \A a \in Spawned \ reg : ~ActorAlive(a) /\ ~ValidAddress(a)

=============================================================================
