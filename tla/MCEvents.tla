------------------------------- MODULE MCEvents -------------------------------
(* Every event and answer that the module has, two of them in a behaviour.  *)
EXTENDS Events

MCNames == AllNames
MCContent(field) == field
MCEntries == <<"first", "second">>

=============================================================================
