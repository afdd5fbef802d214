----------------------------- MODULE MCZohoSync -----------------------------
(***************************************************************************)
(* Two SKUs, a response for each, and records that differ in what the      *)
(* import treats differently.                                              *)
(***************************************************************************)
EXTENDS ZohoSync, TLC

CONSTANTS mug, pin, glass, pipes, beads

Pipe == [web |-> TRUE, slug |-> mug, department |-> glass, category |-> pipes,
         value |-> "red", collections |-> {"new"}, images |-> {"front"}]

\* Its department is the other's category.
Bead == [web |-> TRUE, slug |-> pin, department |-> pipes, category |-> beads,
         value |-> None, collections |-> {}, images |-> {}]

\* Also named like the first.
Renamed == [Bead EXCEPT !.slug = mug, !.department = glass, !.images = {"front"}]

Removed == [Pipe EXCEPT !.web = FALSE]

NoCategory == [Pipe EXCEPT !.category = None]

NoDepartment == [Bead EXCEPT !.department = None]

MCListings == "1" :> {Pipe, Removed, NoCategory} @@ "2" :> {Bead, Renamed, NoDepartment}
=============================================================================
