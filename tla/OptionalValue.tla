---------------------------- MODULE OptionalValue ----------------------------
(***************************************************************************)
(* The absent value of the code's optional fields (Python's None): neither *)
(* a number nor anything a field can hold.                                 *)
(***************************************************************************)
EXTENDS Integers

CONSTANT None

ASSUME NoneIsNoNumber == None \notin Int

\* A field that may be absent.
OrNone(S) == S \cup {None}
=============================================================================
