------------------------------ MODULE LogPaths -------------------------------
(***************************************************************************)
(* get_abs_path_name: the name a file object is given becomes an absolute  *)
(* one without ".", ".." and empty parts.  A name is what split_string     *)
(* makes of it, the sequence of its parts between the slashes; one that    *)
(* begins with a slash begins with an empty part.                          *)
(***************************************************************************)
EXTENDS Naturals, Sequences, SequencesExt, FiniteSets

CONSTANTS
  Parts,    (* names of files and directories                                *)
  Cwd,      (* the parts of what getcwd() says                               *)
  MaxParts  (* bounds the names                                              *)

ASSUME LogPathsAssumption ==
  /\ {"", ".", ".."} \cap Parts = {}
  /\ Cwd \in Seq(Parts \cup {""}) /\ Head(Cwd) = ""
  /\ MaxParts \in Nat

VARIABLES
  name,  (* what split_string made of the name, behind that of getcwd() if    *)
         (* the name is a relative one; empty when nothing is being named     *)
  part,  (* the part the loop looks at                                        *)
  use,   (* the parts kept                                                    *)
  fault  (* behaviour is undefined from here on                               *)

pathVars == <<name, part, use, fault>>

(* A lone empty part is the empty name, a relative one.                    *)
Absolute(n) == Len(n) > 1 /\ n[1] = ""

PathInit ==
  /\ name \in {IF Absolute(n) THEN n ELSE Cwd \o n :
                 n \in BoundedSeq(Parts \cup {"", ".", ".."}, MaxParts) \ {<<>>}}
  /\ part = 1 /\ use = <<>> /\ fault = FALSE

NoPath == name = <<>> /\ part = 1 /\ use = <<>> /\ fault = FALSE

-----------------------------------------------------------------------------
Looks(at) ==
  /\ ~fault /\ part <= Len(name)
  /\ name[part] \in at
  /\ part' = part + 1
  /\ UNCHANGED name

Skip == Looks({"", "."}) /\ UNCHANGED <<use, fault>>

Keep == Looks(Parts) /\ use' = Append(use, name[part]) /\ UNCHANGED fault

(* Mutant of Up: the root's parent is the root.                            *)
UpToRoot ==
  /\ Looks({".."})
  /\ use' = IF use = <<>> THEN <<>> ELSE Front(use)
  /\ UNCHANGED fault

(* use.pop_back(), whose behaviour is undefined when there is nothing left. *)
Up ==
  /\ Looks({".."})
  /\ \/ use # <<>> /\ use' = Front(use) /\ UNCHANGED fault
     \/ use = <<>> /\ fault' = TRUE /\ UNCHANGED use

PathNext == Skip \/ Keep \/ Up

-----------------------------------------------------------------------------
(* What the name should become.  A ".." takes back the last part that no   *)
(* earlier ".." has taken back, as brackets match.                         *)
Ups(i, j) == Cardinality({k \in i..j : name[k] = ".."})
Downs(i, j) == Cardinality({k \in i..j : name[k] \in Parts})

Stays(i) ==
  /\ name[i] \in Parts
  /\ \A j \in (i + 1)..Len(name) : Ups(i + 1, j) <= Downs(i + 1, j)

(* The last part, in order, of those that stay.                            *)
Normal ==
  LET kept == {i \in DOMAIN name : Stays(i)}
      Nth(n) == CHOOSE i \in kept : Cardinality({k \in kept : k <= i}) = n
  IN  [n \in 1..Cardinality(kept) |-> name[Nth(n)]]

(* The name is normal in the end, and the loop leaves what is defined      *)
(* exactly for a name that climbs above the root.                          *)
PathAsMeant ==
  LET tooFar == \E j \in DOMAIN name : Ups(1, j) > Downs(1, j)
  IN  /\ fault => tooFar
      /\ part > Len(name) /\ ~fault => use = Normal /\ ~tooFar

=============================================================================
