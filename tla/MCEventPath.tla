----------------------------- MODULE MCEventPath -----------------------------
(***************************************************************************)
(* Up to three events out of: one with all fields; data of two lines, with *)
(* a space before and a colon inside; data that reads like a field when    *)
(* its start is cut off; an empty field alone; and a comment.              *)
(***************************************************************************)
EXTENDS EventPath

MCEvents ==
  { [event |-> <<"a">>, id |-> <<"7">>, data |-> <<"a">>, retry |-> <<"7">>],
    [data |-> <<Space, "a", NewLine, Colon, "a">>],
    [id |-> <<"a">>, data |-> <<"a", "id", Colon, "7">>],
    [event |-> <<>>],
    NoField }
\* Every event of the library has a field, see http_chunk::valid.
MCLibraryEvents == {e \in MCEvents : Valid(e)}
MCNumerals == {"7"}
MCWords == Separators \cup FieldSet \cup MCNumerals \cup {"a"}
=============================================================================
