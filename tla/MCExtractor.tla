----------------------------- MODULE MCExtractor -----------------------------
(* Instances of Extractor, and of the queries on what it makes, for TLC:   *)
(* trees over one construct of each shape (of the constructs that make the *)
(* same node, in the same places and with the same edge, one is kept).     *)
EXTENDS Queries

Twins == {"loop_generate", "case_branch", "generate_region", "property_decl", "sequence_decl",
          "dpi", "config_db_get", "scoped_create_call", "scoped_override_call", "modport"}
ConstructsOfEachShape == {row.construct : row \in Rows} \ Twins
=============================================================================
