--------------------------- MODULE MCDtuProvision ---------------------------
(***************************************************************************)
(* DtuProvision with the parameters of a small [dtu] table: a channel,     *)
(* which two parameters share, and a key.  At station 1 MODE and ADDR also *)
(* have one value.                                                         *)
(***************************************************************************)
EXTENDS DtuProvision

\* The order of the dict, and the key of the [dtu] table behind a parameter.
AtNames == <<"MODE", "ADDR", "TXCH", "RXCH", "SF", "BW", "CR", "PWR", "NETID", "KEY">>
ConfigKey ==
    [TXCH |-> "channel", RXCH |-> "channel", SF |-> "sf", BW |-> "bw", CR |-> "cr",
     PWR |-> "power", NETID |-> "netid", KEY |-> "key"]

\* params_from_config(): MODE is forced to 1, ADDR is the node's.
ParamsFromConfig(config, address) ==
    [n \in {"MODE", "ADDR"} \cup {m \in DOMAIN ConfigKey : ConfigKey[m] \in DOMAIN config} |->
        CASE n = "MODE" -> "1" [] n = "ADDR" -> address [] OTHER -> config[ConfigKey[n]]]

MCWanted == ParamsFromConfig([channel |-> "24", key |-> "7"], "1")
MCParam == DOMAIN MCWanted
MCOrder == SelectSeq(AtNames, LAMBDA n : n \in MCParam)
MCValue == {"1", "24", "7", "0", ""}

\* A DTU of another node, of another channel in either direction.
MCInitial ==
    {[n \in MCParam |-> IF n \in right THEN MCWanted[n] ELSE "0"] :
        right \in {own \cup channels : own \in {{}, {"MODE", "ADDR"}},
                                       channels \in SUBSET {"TXCH", "RXCH"}}}

MCBudget == [lost |-> 2, late |-> 1, ignored |-> 3, refused |-> 1, port |-> 1]
=============================================================================
