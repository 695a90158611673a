----------------------------- MODULE MigrationsMC -----------------------------
(* The eighteen scripts of src/backend/migrations: how many statements each
   has, and how many of them, always the first, are ALTER TABLE.            *)
EXTENDS Migrations

Lengths    == <<7, 9, 5, 10, 1, 2, 1, 3, 1, 1, 1, 5, 8, 1, 8, 4, 2, 4>>
AlterCount == <<0, 4, 3,  0, 0, 0, 1, 3, 0, 1, 1, 0, 8, 1, 0, 0, 2, 0>>
Columns    == UNION {{<<m, k>> : k \in 1..AlterCount[m]} : m \in 1..Last}

=============================================================================
