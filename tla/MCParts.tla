------------------------------- MODULE MCParts -------------------------------
(***************************************************************************)
(* The parts that share no state with one another, for one run of the      *)
(* model checker: the first state chooses one of them, and only that one   *)
(* takes steps.  The state space is the union of theirs.                   *)
(***************************************************************************)
EXTENDS EcCdev, EcLocks, MtpMq, VConf, IntProps, Timespec, Argp, LibcameraDemo

VARIABLE part

partsVars == <<part, vars, lkVars, mqVars, vcVars, ipVars, tsVars, agVars, cmVars>>

PartsInit ==
  /\ part \in {"cdev", "locks", "mq", "vconf", "intprops", "timespec", "argp", "camera"}
  /\ Init /\ MqInit /\ VcInit /\ CmInit
  /\ IF part = "locks" THEN LkInit ELSE LkInit /\ lkKind = "down"
  /\ IF part = "intprops" THEN IpInit ELSE IpInit /\ ipCall.a = Lit(0)
  /\ IF part = "timespec" THEN TsInit ELSE TsInit /\ tsSigned = FALSE
  /\ IF part = "argp" THEN AgInit ELSE AgInit /\ agArgv = <<<<>>>>

OthersIdle(p) ==
  /\ part = p
  /\ UNCHANGED part
  /\ (p # "cdev" => UNCHANGED vars)
  /\ (p # "locks" => UNCHANGED lkVars)
  /\ (p # "mq" => UNCHANGED mqVars)
  /\ (p # "vconf" => UNCHANGED vcVars)
  /\ (p # "intprops" => UNCHANGED ipVars)
  /\ (p # "timespec" => UNCHANGED tsVars)
  /\ (p # "argp" => UNCHANGED agVars)
  /\ (p # "camera" => UNCHANGED cmVars)

PartsNext ==
  \/ part = "cdev" /\ Next /\ OthersIdle("cdev")
  \/ part = "locks" /\ LkNext /\ OthersIdle("locks")
  \/ part = "mq" /\ MqNext /\ OthersIdle("mq")
  \/ part = "vconf" /\ VcNext /\ OthersIdle("vconf")
  \/ part = "intprops" /\ IpNext /\ OthersIdle("intprops")
  \/ part = "timespec" /\ TsCall /\ OthersIdle("timespec")
  \/ part = "argp" /\ AgNext /\ OthersIdle("argp")
  \/ part = "camera" /\ CmNext /\ OthersIdle("camera")

\* The fairness is that of the camera demo.
PartsSpec == PartsInit /\ [][PartsNext]_partsVars /\ (part = "camera" => CmFairness)

-----------------------------------------------------------------------------
(* Values of the constants.                                                *)

Opt(name, key, arg) == [name |-> name, key |-> key, arg |-> arg]

\* A long and a short name with an argument, a name of which the first is the
\* beginning, a long name only, and a key only.
MCOption ==
  <<Opt(<<"i", "n">>, "i", TRUE), Opt(<<"i", "n", "x">>, "x", FALSE),
    Opt(<<"l">>, AgNUL, FALSE), Opt(<<>>, "k", TRUE)>>

MCWord ==
  LET long == {<<"i">>, <<"i", "n">>, <<"i", "n", "=">>, <<"i", "n", "x", "=", "v">>, <<"l">>,
               <<"=", "v">>, <<"z">>, Help, <<>>}
      short == {<<"i">>, <<"x", "v">>, <<"k">>, <<"h">>, <<>>}
  IN  {<<"v">>, <<>>} \cup {<<"-", "-">> \o w : w \in long} \cup {<<"-">> \o w : w \in short}

MCArgv ==
  {<<<<>>>>} \cup UNION {{<<<<>>>> \o w : w \in [1..n -> MCWord]} : n \in 1..3}
=============================================================================
