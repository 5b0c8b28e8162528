------------------------------ MODULE MCRestore ------------------------------
(***************************************************************************)
(* Programs for iptables-restore, and what a load means for packets.       *)
(***************************************************************************)
EXTENDS IptablesRestore, MCRules

(* A rule for the nat table is refused by ip6tables-restore, and kept from *)
(* iptables-restore (NatPrograms has it); a permission to masquerade on    *)
(* input is refused by both.                                               *)
Masquerade(dir) == IF dir = "INPUT" THEN << In("eth0", {<<"TARGET", "MASQ">>}) >>
                   ELSE << Out("eth1", {<<"TARGET", "MASQ">>, Forward}) >>

Plain == { x \in Items : \A i \in DOMAIN x : ~NeedsNat(x[i].ent) }

MCPrograms ==
    { <<>> } \union { x \o y : x \in Plain, y \in Plain }
    \union { x \o Masquerade(dir) : x \in Plain, dir \in Direction }
    \union ForwardPrograms

(* They are what RestoreAccepted and RestoredRules (RestoreProofs) ask of  *)
(* a program; MCInit leaves those for which NatFree holds as well.         *)
ASSUME ProgramsAreOrderly ==
    \A calls \in MCPrograms : Regular(calls) /\ Nested(calls, MCRank)

MCOldRules == {Earlier, Permissive}

MCInit ==
    /\ Init
    /\ family = "AF_INET" <=> old = Permissive
    /\ family = "AF_INET" =>
        \A i \in DOMAIN program : NeedsNat(program[i].ent) => program[i].ent.dir = "INPUT"

MCSpec == MCInit /\ [][Next]_vars /\ WF_vars(Filtergen) /\ WF_vars(Reader)

-----------------------------------------------------------------------------
(* A rule that masquerades, after another rule.                            *)
NatPrograms == { << In("*", {Accept}) >> \o Masquerade("OUTPUT") }
=============================================================================
