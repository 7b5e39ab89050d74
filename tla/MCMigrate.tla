----------------------------- MODULE MCMigrate -----------------------------
(* Two runners over four files: one that fails when run twice, one that does  *)
(* not, one made within the same second without an up block of its own, and   *)
(* one whose name has another form.                                           *)
EXTENDS Migrate, TLC

CONSTANTS r1, r2, f1, f2, f3, bad

MCRunners == {r1, r2}
MCDeployed == {r1}
MCFiles   == {f1, f2, f3, bad}
MCVersionOf == f1 :> 1 @@ f2 :> 2 @@ f3 :> 2 @@ bad :> 3
MCMalformed == {bad}
MCContent ==
  f1 :> <<"text", "up", "sql", "down", "sql">> @@ f2 :> <<"down", "sql", "up", "sql">>
    @@ f3 :> <<"text", "down", "text">> @@ bad :> <<>>
MCStrict  == {f1}
MCTargets == {0, 1}
MCSteps   == {1, 2}
MCSchemes == {"sqlite", "postgres", "mysql"}
=============================================================================
