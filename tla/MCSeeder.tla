------------------------------ MODULE MCSeeder ------------------------------
(***************************************************************************)
(* Two seeders of two users each; over the API somebody may register with  *)
(* an address of the script, and whoever is a user uploads and downloads.  *)
(***************************************************************************)
EXTENDS Seeder, TLC

CONSTANTS s1, s2, u1, d1, admin, user1, p1

Script == <<admin, user1>>
AddressOf == [p \in Person |-> user1]

Symmetry == Permutations({s1, s2})
=============================================================================
