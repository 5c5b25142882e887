-------------------------- MODULE MCPluginInstall --------------------------
(* PluginInstall with two plugins that compete for tools and namespaces.   *)
EXTENDS PluginInstall

CONSTANTS p1, p2, t1, t2, c1, c2, c3

Namespaces == [c \in {c1, c2, c3} |-> IF c = c3 THEN "b" ELSE "a"]

Mod(e, ts, cs, task, b) ==
  [enabled |-> e, tools |-> ts, commands |-> cs, task |-> task, breaks |-> b]

First    == Mod(TRUE, {t1}, {c1}, TRUE, "no")
Second   == Mod(TRUE, {t2}, {c2, c3}, FALSE, "no")
Broken   == Mod(TRUE, {t1, t2}, {c1}, TRUE, "setup")
Unbuilt  == Mod(TRUE, {t2}, {c3}, TRUE, "build")
Shelf    == Mod(FALSE, {t2}, {}, FALSE, "no")
Other    == Mod(TRUE, {t2}, {c3}, TRUE, "no")

Modules == {First, Second, Broken, Unbuilt, Shelf, Other}

Proj(p, v, m, needs, supported, fault) ==
  [id |-> p, version |-> v, module |-> m, needs |-> needs, supported |-> supported, fault |-> fault]

\* Two versions of one plugin with dependencies, other contents under the first
\* version's number, a version whose setup breaks, another plugin in their way,
\* its versions that are disabled and that cannot be built, one that asks for an
\* isolation there is none of, and a project for each way of reading to fail.
Projects ==
  { Proj(p1, 1, First,   TRUE,  TRUE,  "none"),
    Proj(p1, 1, Other,   FALSE, TRUE,  "none"),
    Proj(p1, 2, Second,  TRUE,  TRUE,  "none"),
    Proj(p1, 2, Broken,  FALSE, TRUE,  "none"),
    Proj(p2, 1, Other,   FALSE, TRUE,  "none"),
    Proj(p2, 2, Shelf,   FALSE, TRUE,  "none"),
    Proj(p2, 3, Unbuilt, FALSE, TRUE,  "none"),
    Proj(p2, 3, First,   FALSE, FALSE, "none"),
    Proj(p2, 4, First,   FALSE, TRUE,  "import"),
    Proj(p2, 4, First,   FALSE, TRUE,  "source"),
    Proj(p2, 4, First,   FALSE, TRUE,  "manifest") }
=============================================================================
