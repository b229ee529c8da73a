---------------------------- MODULE MCMigrations ----------------------------
(***************************************************************************)
(* Four releases: one, its successor, a branch with other files from the     *)
(* second on, and an image whose second file was left out.                  *)
(***************************************************************************)
EXTENDS Migrations, TLC

CONSTANTS x1, x2, init, users, usersEdited, tasks, routes

MCReleases == {"old", "new", "branch", "gap"}

MCShip ==
    "old" :> (1 :> init @@ 2 :> users)
    @@ "new" :> (1 :> init @@ 2 :> users @@ 3 :> tasks)
    @@ "branch" :> (1 :> init @@ 2 :> usersEdited @@ 3 :> routes)
    @@ "gap" :> (1 :> init @@ 3 :> tasks)
=============================================================================
