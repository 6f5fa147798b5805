------------------------------- MODULE Inventory -------------------------------
(* The corpus inventory (scripts/corpus_inventory.py): why it calls a record of *)
(* the reference file invalid.  The parser leaves no record without a text, a   *)
(* work or a locator, so that only the curated fields are in question.          *)
EXTENDS Retrieval

Presentation == {"representation_kind", "off_enum_kind", "rendering_mode", "off_enum_mode", "provenance", "empty_provenance"}

\* Mutant of HasPresentation: provenance is not thought of as presentation.
HasRepresentation(record) == record.declared \cap (Presentation \ {"provenance", "empty_provenance"}) # {}

HasPresentation(record) == record.declared \cap Presentation # {}

\* _validate: the structural and policy reasons against a record.
Reasons(record) ==
  LET Has(field) == field \in record.declared
      kind == Has("representation_kind") \/ Has("off_enum_kind")
      mode == Has("rendering_mode") \/ Has("off_enum_mode")
  IN {r \in {"representation-kind-not-in-enum"} : Has("off_enum_kind")}
       \cup {r \in {"rendering-mode-not-in-enum"} : Has("off_enum_mode")}
       \cup {r \in {"provenance-malformed"} : Has("empty_provenance")}
       \cup {r \in {"curated-presentation-without-rights"} : HasPresentation(record) /\ ~Has("rights")}
       \cup {r \in {"rendering-mode-without-representation-kind"} : mode /\ ~kind}
================================================================================
