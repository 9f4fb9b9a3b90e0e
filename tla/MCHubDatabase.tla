---------------------------- MODULE MCHubDatabase ----------------------------
(* Instances of HubDatabase: the legacy release, one that adds a column and an  *)
(* Admission table with an index, and one that adds a mandatory column for      *)
(* which the program has the default.                                           *)
EXTENDS HubDatabase, TLC

CONSTANTS r1, r2, r3, base, column, table, index, revision

MCSchema ==
    r1 :> {base} @@ r2 :> {base, column, table, index}
        @@ r3 :> {base, column, table, index, revision}

MCKind ==
    base :> "table" @@ column :> "nullable" @@ table :> "admission" @@ index :> "index"
        @@ revision :> "declared"

MCTable ==
    base :> base @@ column :> base @@ table :> table @@ index :> table @@ revision :> base

Symmetry == Permutations(Keys)

=============================================================================
