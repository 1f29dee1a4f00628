----------------------------- MODULE MCZipAdjust -----------------------------
(* Instances of ZipAdjust: archives of up to two entries. *)
EXTENDS ZipAdjust

MCContent == <<<<>>, <<5>>, <<5, 6, 7>>>>

Entry == {e \in [nlen : {1, 2}, lname : {1, 2, 3}, method : {0, 8}, crc : 1..3,
                 flags : {0, 8, 2048}, lextra : {0, 1}, cextra : {0, 1, 2}, clen : {0, 1}] :
            e.lname = e.nlen \/ (e.lname = 3 /\ e.flags = 0 /\ e.clen = 0)}
Few == {e \in Entry : /\ e.nlen = 1 /\ e.lname = 1 /\ e.crc \in {1, 3}
                      /\ e.clen = e.lextra /\ e.flags < 9}

(* Every entry alone, some in pairs, every comment. *)
MCArchives ==
  [entries : {<<e>> : e \in Entry}, comment : {"none"}]
    \cup [entries : {<<d, e>> : d \in Few, e \in Few}, comment : {"none"}]
    \cup [entries : {<<>>} \cup {<<e>> : e \in {f \in Few : f.flags = 0}},
          comment : {"plain", "footer", "far", "magic"}]
=============================================================================
