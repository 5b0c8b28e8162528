------------------------------- MODULE MCFgadm -------------------------------
(***************************************************************************)
(* Small texts and command lines for Fgadm.                                *)
(***************************************************************************)
EXTENDS Fgadm

CONSTANTS Sensible, Sensible2, Unparsable, Senseless, Crashing, Exiting

MCText == {Sensible, Sensible2, Unparsable, Senseless, Crashing, Exiting}

MCValue ==
    {"*", "tcp", "udp", "icmp", "ACCEPT", "DROP", "REJECT", "MASQ", "REDIRECT", "LOCALONLY",
     "ROUTEDONLY", "F_SUBGROUP"}

RuleFor(dir, proto, target) ==
    RuleCommands([m |-> [t \in FieldType |->
                            CASE t = "DIRECTION" -> "*" [] t = "PROTO" -> proto
                              [] t = "TARGET" -> target [] OTHER -> NULL],
                  dir |-> dir, group |-> NULL, set |-> {"DIRECTION", "TARGET"}, neg |-> {}])

Made(parses, chunks, outcome) == [parses |-> parses, chunks |-> chunks, outcome |-> outcome]

MCCompiled ==
    [t \in MCText |->
        CASE t = Sensible ->
                Made(TRUE, <<RuleFor("INPUT", "tcp", "ACCEPT"), RuleFor("OUTPUT", NULL, "ACCEPT")>>, "rules")
          [] t = Sensible2 -> Made(TRUE, <<RuleFor("OUTPUT", NULL, "DROP")>>, "rules")
          [] t = Unparsable -> Made(FALSE, <<>>, "rules")
          [] t = Senseless -> Made(TRUE, <<RuleFor("INPUT", NULL, "DROP")>>, "error")
          [] t = Crashing -> Made(TRUE, <<>>, "abort")
          [] t = Exiting -> Made(TRUE, <<>>, "exit")]

(* The rules of an earlier load, after a stop that was cut short.          *)
MCOldRules ==
    { Effect(Booted, Skeleton("AF_INET") \o RuleFor("INPUT", "tcp", "DROP")
                     \o SubSeq(SetPolicy("ACCEPT"), 1, 1)) }

MCOldFiles == { Holding(RuleFor("INPUT", NULL, "DROP")) }

(* A job of at meets no other trouble: with any of it there are too many   *)
(* orders in which two scripts can be executed.                            *)
MCTroubles == SUBSET {"edit", "filtergen", "shell"} \union {{"job"}}

ToFile == [Plain EXCEPT !.to = "file"]

MCByHand ==
    { ToFile,
      [ToFile EXCEPT !.info = TRUE],
      [ToFile EXCEPT !.info = TRUE, !.flush = "unknown"],
      [ToFile EXCEPT !.infile = FALSE],
      [ToFile EXCEPT !.compile = TRUE, !.target = "ip6tables"],
      [ToFile EXCEPT !.flush = "DROP", !.infile = FALSE, !.target = "ip6tables"],
      [ToFile EXCEPT !.flush = "ACCEPT", !.target = "cisco"],
      [ToFile EXCEPT !.source = "unknown"],
      [ToFile EXCEPT !.target = "unknown"] }
=============================================================================
