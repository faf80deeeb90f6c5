------------------------------ MODULE MCAdaptive ------------------------------
(* Instance of Adaptive: four levels whose sizes and speeds are apart by   *)
(* less than a tie, by less than a step may lose, and by more.             *)
EXTENDS Adaptive

Load(sizes, speeds) ==
  [i \in Indices |-> [size |-> sizes[i + 1], speed |-> speeds[i + 1]]]

(* In turn: a dip in both on the way, the usual order with a tie at the    *)
(* top, two dips before the best, a barrier, and the usual order reversed. *)
MCLoads == {
  Load(<< 1000, 1015, 990, 1040 >>,  << 1000, 930, 960, 800 >>),
  Load(<< 1040, 1020, 1004, 1000 >>, << 1000, 960, 930, 800 >>),
  Load(<< 1000, 1015, 1030, 995 >>,  << 800, 930, 960, 1000 >>),
  Load(<< 1000, 1040, 900, 1000 >>,  << 1000, 800, 1000, 930 >>),
  Load(<< 1000, 1004, 1015, 1040 >>, << 880, 920, 960, 1000 >>) }
=============================================================================
