------------------------------ MODULE MCBuild ------------------------------
(* Two processes, an entry in SASS and one in JavaScript, a template and     *)
(* four command lines.                                                        *)
EXTENDS Build, TLC

CONSTANTS p1, p2, js, scss, page

MCProcs     == {p1, p2}
MCEntries   == {js, scss}
MCRank      == js :> 1 @@ scss :> 2
MCOutput    == js :> "app.js" @@ scss :> "app.css"
MCSass      == {scss}
MCTemplates == {page}
MCHtml      == {page}

Line(c, m, s, w, d, f) ==
  [cmd |-> c, minify |-> m, noSass |-> s, swagger |-> w, docker |-> d, force |-> f]

MCCommands == {Line("build", TRUE, FALSE, TRUE, FALSE, FALSE),
               Line("build", FALSE, TRUE, FALSE, TRUE, FALSE),
               Line("docker", TRUE, FALSE, TRUE, TRUE, TRUE),
               Line("dev", FALSE, FALSE, TRUE, FALSE, FALSE)}

MCSymmetry == Permutations(MCProcs)
=============================================================================
