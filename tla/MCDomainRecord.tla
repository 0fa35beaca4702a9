--------------------------- MODULE MCDomainRecord ---------------------------
(* DomainRecord for TLC.  A site starts with any pair of an agents.json    *)
(* and a directory of these, and changes to one of two others.             *)
EXTENDS DomainRecord

MCAgents ==
  {Absent, [shape |-> "object", capabilities |-> Empty]}
  \cup [shape : Broken] \cup [shape : {"object"}, capabilities : Capabilities]

(* A manifest with a float that is read back as an integer. *)
MCJsonb == [c \in Capabilities |-> IF c = "float" THEN "some" ELSE c]

Key(kid, exp) == [kid |-> kid, exp |-> exp, isObject |-> TRUE]
Jwks(keys) == [shape |-> "jwks", keys |-> keys]

(* Rotations in both orders, a tie, keys without exp or kid, an exp out of *)
(* range, entries that are no objects.                                     *)
MCDirectories ==
  {Absent, Jwks(<<>>), Jwks(<<Junk>>)}
  \cup [shape : Broken \cup {"no_keys"}]
  \cup {Jwks(<<Key("k", e)>>) : e \in {None, 0, 1, 2, 9}}
  \cup {Jwks(<<Key("k", 1), Key("l", 2)>>), Jwks(<<Key("l", 2), Key("k", 1)>>),
        Jwks(<<Key("k", 2), Key("l", 2)>>), Jwks(<<Junk, Key("k", None), Key("l", 1)>>),
        Jwks(<<Key(None, 1), Key("k", None)>>), Jwks(<<Key("nul", 1)>>)}

MCBundles == [agents : MCAgents, directory : MCDirectories, llms : BOOLEAN]

(* Each manifest with each directory would add nothing but states.         *)
MCSites ==
  {b \in MCBundles : \/ b.agents = Absent
                     \/ b.directory \in {Absent, Jwks(<<Key("k", 1)>>)} /\ b.llms}

MCUpdates ==
  {[agents |-> Absent, directory |-> Jwks(<<Key("k", 1), Key("l", 2)>>), llms |-> TRUE]}
=============================================================================
