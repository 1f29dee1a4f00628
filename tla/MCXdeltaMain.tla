---------------------------- MODULE MCXdeltaMain ----------------------------
(* Instances of XdeltaMain: inputs of up to three windows. *)
EXTENDS XdeltaMain

Job == [regular : BOOLEAN, option_winsize : {2, 3}, force : BOOLEAN, no_output : BOOLEAN,
        ofile : {"", "out"}, exists : {{}, {"out", "default"}}, appheader : BOOLEAN,
        sfile : {"", "source"}]
(* The input is a file, or a delta as far as it goes. *)
Inputs(cmd) ==
  IF cmd = "encode" THEN {[k \in 1..n |-> k + 10] : n \in 0..7}
  ELSE {SubSeq(<<0, 0, 1, 1, 1, 2, 2, 2, 3, 3, 3>>, 1, n) : n \in 0..11}

(* Options that have nothing to do with each other are not combined. *)
Sensible(j) ==
  /\ j.no_output => ~j.force /\ j.ofile = "" /\ j.exists = {}
  /\ j.force => j.exists # {} /\ j.regular
  /\ j.sfile # "" => j.regular
MCJobs ==
  UNION {{[cmd |-> c, input |-> i, regular |-> j.regular, option_winsize |-> j.option_winsize,
           force |-> j.force, no_output |-> j.no_output, ofile |-> j.ofile,
           exists |-> j.exists, appheader |-> j.appheader, sfile |-> j.sfile]
            : i \in Inputs(c), j \in {k \in Job : Sensible(k)}} : c \in {"encode", "decode"}}
=============================================================================
