------------------------------- MODULE Registry -------------------------------
(***************************************************************************)
(* modules/field.c: plugins (m16.c, mn.c) register a field each, in the    *)
(* list of CircularList, when they are loaded; sum(m, a, b) adds modulo m  *)
(* with the field of m, or with field 0, whose modulus then becomes m.     *)
(***************************************************************************)
EXTENDS CircularList

CONSTANTS Moduli,  \* what callers ask for
          M16, Mn  \* the fields of the two plugins

ASSUME RegistryAssumption == {M16, Mn} \subseteq ListItems /\ M16 # Mn /\ Moduli \subseteq Nat

VARIABLES modulus, \* modulus[f]: f->m
          asked,   \* the moduli asked for so far
          answer,  \* the last call that returned: what was asked, what was computed with
          crashed  \* whether the program was killed by SIGSEGV or SIGFPE
registryVars == <<modulus, asked, answer, crashed>>

Fields == {M16, Mn}
NoField == Head0
RegistryInit == /\ modulus = [f \in Fields |-> IF f = M16 THEN 16 ELSE 0]
                /\ asked = {} /\ answer = <<0, 0>> /\ crashed = FALSE

(* A plugin's constructor, before main calls sum. *)
RegisterField(f) ==
  /\ f \in Fields /\ asked = {} /\ Add(f) /\ UNCHANGED registryVars

(* get_field: the first field of modulus m *)
GetField(m) ==
  LET fields == Walk(links.next)
      hits == {k \in DOMAIN fields : modulus[fields[k]] = m}
  IN IF hits = {} THEN NoField ELSE fields[CHOOSE k \in hits : \A j \in hits : k <= j]

(* Mutant: the spare field is used but keeps its modulus. *)
SparesUnnamed(m) == modulus
Spares(m) == IF GetField(m) = NoField THEN [modulus EXCEPT ![GetField(0)] = m] ELSE modulus

(* sum16 masks four bits; sumn divides by its own field's modulus. *)
ComputesWith(f) == IF f = M16 THEN 16 ELSE modulus'[Mn]

Sum(m) ==
  LET f == IF GetField(m) = NoField THEN GetField(0) ELSE GetField(m)
  IN /\ ~crashed /\ asked' = asked \cup {m}
     /\ \/ f = NoField /\ crashed' = TRUE /\ UNCHANGED <<modulus, answer>>
        \/ /\ f # NoField /\ modulus' = Spares(m)
           /\ IF ComputesWith(f) = 0 THEN crashed' = TRUE /\ UNCHANGED answer
              ELSE answer' = <<m, ComputesWith(f)>> /\ UNCHANGED crashed
     /\ UNCHANGED listVars

RegistryNext == (\E f \in Fields : RegisterField(f)) \/ \E m \in Moduli : Sum(m)
RegistrySpec == ListInit /\ RegistryInit /\ [][RegistryNext]_<<listVars, registryVars>>
-----------------------------------------------------------------------------
RegistryTypeOK ==
  /\ modulus \in [Fields -> Nat] /\ asked \subseteq Moduli
  /\ answer \in Nat \X Nat /\ crashed \in BOOLEAN

(* Whoever asks for a sum modulo m gets it modulo m; it is refused, by a       *)
(* crash, only when the spare field is not loaded or was taken for another     *)
(* modulus, or for modulus 0 (field.c:32).                                     *)
Loaded(f) == f \in linked
Strange == asked \ (IF Loaded(M16) THEN {16} ELSE {})
SumsModulo ==
  /\ answer[1] = answer[2]
  /\ crashed => \/ 0 \in asked
                \/ Strange # {} /\ ~Loaded(Mn)
                \/ \E m, n \in Strange : m # n
==============================================================================
