------------------------------- MODULE MCLoad -------------------------------
(***************************************************************************)
(* Programs for Load, and what a load means for packets.                   *)
(***************************************************************************)
EXTENDS Load, MCRules

(* Of two equal items the second is what a list in front of a group makes  *)
(* of it.                                                                  *)
MCPrograms ==
    { <<>> } \union { x \o y : x \in Items, y \in Items } \union ForwardPrograms

(* They are what NoneRefused, LoadFailsClosed and LoadedRules (LoadProofs) *)
(* ask of a program.                                                       *)
ASSUME ProgramsAreOrderly ==
    \A calls \in MCPrograms : Regular(calls) /\ Nested(calls, MCRank)

MCOldRules == {Earlier, Permissive}

(* One of the two for each family is enough: the family changes nothing    *)
(* but the nat table.                                                      *)
MCInit == Init /\ (family = "AF_INET" <=> old = Permissive)

MCSpec == MCInit /\ [][Next]_loadVars

-----------------------------------------------------------------------------
(* Everything may leave but new connections, which are turned away.        *)
RelatedPrograms == { << Out("*", {Tcp, Reject}), Out("*", {Accept}) >> }
=============================================================================
