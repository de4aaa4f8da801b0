----------------------------- MODULE MCSchema -----------------------------
(* Operators write versions of one policy type, which a later revision     *)
(* admits and whose policy a served run cites in three columns.            *)
EXTENDS SchemaProps

MCOwnTypes == {"COLD_START"}

=============================================================================
