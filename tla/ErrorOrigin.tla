---------------------------- MODULE ErrorOrigin ----------------------------
(***************************************************************************)
(* TaggedCoro with a history variable: where the error that is on its way  *)
(* was raised.  taggedcoro.c keeps no such thing; what it reports instead  *)
(* is meta[4], the source.                                                 *)
(***************************************************************************)
EXTENDS TaggedCoroQueries

VARIABLE raisedIn  \* the coroutine that raised the current error, Nil if none

ovars == <<vars, raisedIn>>

\* auxcallk hands an error on: the only way to raise one that is not new.
HandsOn == InAuxcallk /\ status[Callee] = "err"

OriginInit == Init /\ raisedIn = Nil

\* An error keeps its origin while it kills one coroutine after the other; it is
\* forgotten when it is caught.  (Calling a dead coroutine raises one of no
\* coroutine of the program.)
OriginNext ==
    /\ Next
    /\ raisedIn' =
         IF mode' = "raise" THEN IF HandsOn THEN raisedIn ELSE cur'
         ELSE IF mode = "raise" /\ mode' = "back" THEN raisedIn
         ELSE Nil

OriginSpec == OriginInit /\ [][OriginNext]_ovars

\* README.md:64, "A `source` function returns ... where an error originated, in
\* case of a `dead` coroutine": what auxcallk records for a coroutine that has just
\* died is where its error was raised.
SourceIsOrigin == HandsOn /\ raisedIn # Nil => ErrorSource = raisedIn
=============================================================================
