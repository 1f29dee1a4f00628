---------------------------- MODULE MCEncodeFile ----------------------------
(* Model checking of EncodeFile on inputs made of pieces of a source. *)
EXTENDS EncodeFile

CONSTANTS Behaviours

Src == <<1, 2, 3, 1, 2, 2, 3, 3, 1, 3, 2, 1, 1, 2, 3, 1, 3, 3, 2, 2, 3, 1, 1, 1, 3, 1, 2, 1>>
Part(a, b) == SubSeq(Src, a, b)
Run(n, c) == [i \in 1 .. n |-> c]

Config(winsize, iopt_size, unlimited, getblk) ==
  [winsize |-> winsize, iopt_size |-> iopt_size, unlimited |-> unlimited,
   nocompress |-> FALSE, getblk |-> getblk, sprevsz |-> 8, appheader |-> <<>>, adler32 |-> TRUE]

Pieces ==
  {x \o y \o z : x \in {Part(1, 5), Part(9, 16), Run(9, 2), <<>>},
                 y \in {<<3, 3>>, <<1, 1, 2, 2>>, Run(8, 1)},
                 z \in {Part(3, 12), Part(14, 23), Run(10, 2)}}

(* Many short matches in one window, and several windows. *)
Long ==
  {v \o w \o x \o y \o z \o v \o u : u \in {Part(1, 8), Run(3, 2)},
     v \in {Part(1, 6), Part(17, 22)}, w \in {Part(9, 15), Part(18, 24)},
     x \in {Part(23, 28), Part(3, 8)}, y \in {Part(8, 14), Run(8, 3)}, z \in {Part(16, 21)}}

(* A source of full blocks, matched to its last byte and beyond. *)
Full == Part(1, 24)
Ends == {x \o Part(a, 24) \o z : x \in {<<3, 3>>, Part(1, 6)}, a \in {13, 17},
           z \in {Part(3, 8), Run(3, 3)}}

B(config, bytes, src, input, piece, kind) ==
  [config |-> config, bytes |-> bytes, src |-> src, input |-> input, piece |-> piece,
   kind |-> kind]

MCBehaviours ==
  {B(Config(16, 4, FALSE, g), Src, Source(Src, 8, m, k), i, 16, "file") :
     i \in Pieces, g \in {0, 1, 2}, k \in BOOLEAN, m \in {16}}
  \cup {B(Config(16, 4, FALSE, 0), Src, Source(Src, 8, m, TRUE), i, p, "pieces") :
     i \in Pieces, p \in {5, 20}, m \in {32}}
  \cup {B(Config(16, 4, u, 0), Src, Preset(Source(Src, 32, 32, TRUE), Src), i, 16, "memory") :
     i \in Pieces, u \in BOOLEAN}
  \cup {B([Config(12, 4, FALSE, 0) EXCEPT !.nocompress = n], <<>>, NoSource, i, p, "pieces") :
     n \in BOOLEAN, i \in Pieces, p \in {7, 12}}
  \cup {B(Config(w, 4, u, 0), Src, Source(Src, 8, 32, k), i, w, "file") :
     i \in Long, w \in {13, 64}, u \in BOOLEAN, k \in BOOLEAN}
  \cup {B(Config(16, 4, FALSE, g), Full, Source(Full, 8, 32, k), i, 16, "file") :
     i \in Ends, g \in {0, 1}, k \in BOOLEAN}

Init ==
  \E b \in Behaviours : Begin(b.config, b.bytes, b.src, b.input, b.piece, b.kind)

Spec == Init /\ [][Next]_vars /\ Fairness
==============================================================================
