-------------------------- MODULE MCVersionHandshake --------------------------
(***************************************************************************)
(* Clients that are newer in one or in two fields, whatever the fields,    *)
(* than a server of this source (every constant 1) or one that has raised  *)
(* constants but no version number.  utility::Version stands here with two *)
(* of its nine fields besides version_, which are all treated alike.       *)
(***************************************************************************)
EXTENDS VersionHandshake, FiniteSets

\* Sources, all constants 1.
Source ==
  [auth |-> <<1, 1>>, main |-> <<1, 1>>, core |-> <<1, 1, 1, 1, 1>>, utility |-> <<1, 1, 1>>]

Fields == {<<p, i>> : p \in Parts, i \in 1..5} \cap
          UNION {{<<p, i>> : i \in DOMAIN Source[p]} : p \in Parts}

\* Source with the fields F raised; a part that gets a new version number
\* also gets a field it did not have.
Raised(F) ==
  [p \in Parts |->
     [i \in DOMAIN Source[p] |-> IF <<p, i>> \in F THEN 2 ELSE 1]
       \o (IF <<p, 1>> \in F THEN <<2>> ELSE <<>>)]

MCClientBuilds == {Raised(F) : F \in {G \in SUBSET Fields : Cardinality(G) <= 2}}

MCServerBuilds ==
  {Source, Raised({<<"core", 2>>, <<"core", 4>>}), Raised({<<"core", 5>>, <<"utility", 3>>})}

=============================================================================
