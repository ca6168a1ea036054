------------------------------ MODULE MCLuaApi ------------------------------
(***************************************************************************)
(* One TLC instance for what lies between Lua programs and the functions   *)
(* of TaggedCoro: the function tables, the text of tracebacks, and the     *)
(* functions of compat-5.3.c.  These share no state, so a behaviour is one *)
(* of them alone (subject) and their interleavings add nothing.            *)
(***************************************************************************)
EXTENDS FunctionTables, TracebackText, Compat53, Compat53Buffer

VARIABLES subject

apiVars == <<tablesVars, namesVars, textVars, compatVars, bufferVars, subject>>

\* A module that is a function, the globals, a module with a table in it; "one" is a
\* key that is no string, and "f2" is out of reach of two string keys.
LoadedModules ==
    [loaded  |-> [_G |-> "globals", mod |-> "mod", top |-> "f1", one |-> "f2"],
     globals |-> [_G |-> "globals", print |-> "f3", mod |-> "mod", one |-> "f2"],
     mod     |-> [go |-> "f4", deep |-> "deep"],
     deep    |-> [go |-> "f2"]]

Levels5 == {-1, 0, 1, 5, 11}

Init ==
    /\ TablesInit /\ NamesInit /\ TextInit /\ CompatInit /\ BufferInit
    /\ subject \in {"tables", "names", "text", "compat", "buffer"}

Next ==
    /\ UNCHANGED subject
    /\ \/ /\ subject = "tables" /\ TablesNext
          /\ UNCHANGED <<namesVars, textVars, compatVars, bufferVars>>
       \/ /\ subject = "names" /\ NamesNext
          /\ UNCHANGED <<tablesVars, textVars, compatVars, bufferVars>>
       \/ /\ subject = "text" /\ TextNext
          /\ UNCHANGED <<tablesVars, namesVars, compatVars, bufferVars>>
       \/ /\ subject = "compat" /\ CompatNext
          /\ UNCHANGED <<tablesVars, namesVars, textVars, bufferVars>>
       \/ /\ subject = "buffer" /\ BufferNext
          /\ UNCHANGED <<tablesVars, namesVars, textVars, compatVars>>

Spec == Init /\ [][Next]_apiVars
=============================================================================
