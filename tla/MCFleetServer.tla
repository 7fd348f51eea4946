---------------------------- MODULE MCFleetServer ----------------------------
(***************************************************************************)
(* Instances of FleetServer for TLC: a few versions of graph files,   *)
(* one of each kind a reload tells apart, deployed in any order.           *)
(***************************************************************************)
EXTENDS FleetServer, TLC

CONSTANTS
    f1, f2, f3, f4,  \* versions of graph files
    sha1, sha2       \* what they are stamped with

\* f2 carries the other stamp, f3 has nothing that is asked for and no stamp,
\* f4 is cut short.
MCStamp  == [f \in Files |-> CASE f = f2 -> sha2 [] f = f3 -> NoStamp [] OTHER -> sha1]
MCParses == Files \ {f4}
MCRich   == Files \ {f3}

\* The pins of the command line: one service is pinned, the others are not.
MCExpect == [s \in Services |-> IF s = CHOOSE t \in Services : TRUE THEN sha1 ELSE NoStamp]
MCNoPins == [s \in Services |-> NoStamp]

\* One service is audited, or all of them.
MCOneAudited == {CHOOSE t \in Services : TRUE}
MCAllAudited == Services

MCSymmetry == Permutations(Clients)
=============================================================================
