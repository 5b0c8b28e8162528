----------------------------- MODULE AtomicLoad -----------------------------
(***************************************************************************)
(* What filter_backends.7 says of the iptables-restore driver: "a ruleset  *)
(* that is loaded atomically into Netfilter".  The rules in force are the  *)
(* old ones until one step replaces all of them by the new ones, or the    *)
(* load is given up.                                                       *)
(***************************************************************************)
VARIABLES
    force,      \* the rules in force
    new,        \* constant: those that are being loaded
    over        \* has the load come to its end

loadState == <<force, new, over>>

Replace ==
    /\ ~over /\ over' = TRUE
    /\ force' = new
    /\ UNCHANGED new

GiveUp ==
    /\ ~over /\ over' = TRUE
    /\ UNCHANGED <<force, new>>

Next == Replace \/ GiveUp

Spec == ~over /\ [][Next]_loadState
=============================================================================
