---------------------------- MODULE MCRoundTrips ----------------------------
EXTENDS RoundTrips

-----------------------------------------------------------------------------
(* Counts with gaps, a symbol below one cell, equal ones, one dominant.    *)
MCFseJobs ==
  [kind  : {"fse"},
   freqs : { << 3, 0, 5, 1, 0, 0, 0, 2 >>, << 100, 1, 1, 1, 1, 1 >>, << 1, 1 >>,
             << 0, 0, 0, 7, 7 >>, << 5, 4, 3, 2, 1, 1, 1, 1, 1, 1, 1, 1 >>,
             << 1, 0, 0, 0, 0, 0, 0, 0, 0, 0, 0, 0, 0, 0, 0, 0, 0, 0, 0, 0, 0, 0, 0, 0, 0, 900 >> },
   log   : 5 .. 6]

-----------------------------------------------------------------------------
(* Counts whose codes reach MaxBits (Fibonacci), are all alike, or are two; *)
(* data that brings in the rarest symbols, at lengths about the rounds and *)
(* for several of them at once.                                            *)
Deep == { << 1, 1, 2, 3, 5, 8, 13, 21, 34, 55, 89, 144, 233, 377 >>,
          [i \in 1 .. 100 |-> 1 + ((i * i) % 97)] }
Counts == { << 3, 1, 5, 1, 2, 0, 0, 2 >>, << 1, 1 >>,
            << 1, 1, 2, 3, 5, 8, 13, 21, 34, 55, 89, 144 >>,
            [i \in 1 .. 40 |-> 1 + ((i * 7) % 5)] } \cup Deep
DataOf(counts, n) ==
  LET symbols == SelectSeq([i \in 1 .. Len(counts) |-> i - 1], LAMBDA s : counts[s + 1] > 0)
      Pick(i) == LET q == (i * i + (i \div 3)) % 20 IN IF q >= Len(symbols) THEN q % 2 ELSE q
  IN  [i \in 1 .. n |-> symbols[Pick(i) + 1]]
MCHuffmanJobs ==
  { [kind |-> "huffman", counts |-> c, data |-> DataOf(c, n)] :
      c \in Counts, n \in {4, 8, 31, 61, 80, 100} }
  \cup { [kind |-> "huffman", counts |-> c, data |-> DataOf(c, 200)] : c \in Deep }

-----------------------------------------------------------------------------
(* One sequence, extra bits at their widest, three runs long enough for    *)
(* tables of their own, repeated codes.                                    *)
MCSequenceJobs ==
  { [kind |-> "sequences", seqs |-> s, dict |-> d] :
      d \in { << >>, << Trained >> },
      s \in
      { << [ll |-> 65536 + 131, ml |-> 32771 + 77, ov |-> 2^26 + 12345] >>,
        << [ll |-> 0, ml |-> 3, ov |-> 1], [ll |-> 65536 + 131, ml |-> 65539 + 77, ov |-> 2^26 + 12345],
           [ll |-> 65536 + 1131, ml |-> 65539 + 177, ov |-> 2^26 + 1345],
           [ll |-> 16, ml |-> 34, ov |-> 3] >>,
        [i \in 1 .. 5 |-> [ll |-> 65536 + 77 * i, ml |-> 65539 + 13 * i, ov |-> 2^22 + 777 * i]],
        [i \in 1 .. 20 |-> [ll |-> i % 3, ml |-> 3 + ((i * i) % 5), ov |-> 1 + ((i * 7) % 3)]],
        [i \in 1 .. 16 |-> [ll |-> 5, ml |-> 3 + ((i * i) % 5), ov |-> 1000 + ((i * 7) % 3)]],
        [i \in 1 .. 15 |-> [ll |-> (i * i * 37) % 80, ml |-> 3 + ((i * i * i) % 140),
                            ov |-> 1 + 3^(i % 17)]] } }

-----------------------------------------------------------------------------
(* Sizes either side of every limit of a field.                            *)
MCHeaderJobs ==
  [kind : {"frame"}, size : {NoSize, 0, 1, 255, 256, 257, 65791, 65792, 2^27, 2^27 + 1},
   id : {NoDict, 1, 255, 256, 65535, 65536}, log : {5, 10, 27, 30}, checksum : BOOLEAN]
  \cup [kind : {"block"}, type : {"raw", "compressed"}, size : {0, 1, 131071, 131072}, last : BOOLEAN]
  \cup [kind : {"raw"}, size : {0, 31, 32, 4095, 4096, 131072}]
  \cup { j \in [kind : {"literals"}, treeless : BOOLEAN, size : {63, 255, 256, 1023, 1024, 16383, 16384, 131072},
                compressed : {20, 1023, 1024, 16383, 16384, 131071}] : j.compressed < j.size }
  \cup [kind : {"dictionary"}, id : {1, 2^30 - 1}, reps : {<< 1, 4, 8 >>, << 5, 1, 1024 >>}]
  \cup [kind : {"count"}, size : {1, 127, 128, 32511, 32512, 43690}]

-----------------------------------------------------------------------------
(* Text that repeats near and far, in steps, and after a change.           *)
Squares(a, b, n) == [i \in 1 .. n |-> ((i * i) \div a) % b]
Mixed(a, n)      == [i \in 1 .. n |-> (i * i * i + a * i) % 251]
Sources ==
  { [i \in 1 .. 90 |-> 1], [i \in 1 .. 90 |-> i % 3], Squares(7, 5, 90),
    Squares(3, 11, 36) \o Squares(3, 11, 42) \o Squares(5, 7, 12),
    Squares(3, 11, 24) \o Squares(1, 51, 8) \o Squares(3, 11, 24) \o Squares(1, 51, 10) \o Squares(3, 11, 24),
    [i \in 1 .. 90 |-> i % 23],
    Mixed(3, 30) \o Mixed(9, 18) \o SubSeq(Mixed(9, 18), 6, 13) \o Mixed(77, 4) \o Mixed(3, 30),
    [i \in 1 .. 24 |-> i % 3] \o Mixed(2, 8) \o [i \in 1 .. 28 |-> i % 7] \o Mixed(5, 6) \o [i \in 1 .. 24 |-> i % 5],
    Mixed(3, 30) \o Mixed(4, 18) \o Mixed(3, 30) \o Mixed(77, 12),
    Mixed(1, 24) \o Mixed(5, 12) \o Mixed(1, 12) \o Mixed(8, 6) \o Mixed(1, 18) \o Mixed(4, 6) \o Mixed(5, 12) }
Quick  == [minMatch |-> 4, hashLog |-> 14, target |-> 1, strength |-> 8, window |-> 1000]
Narrow == [minMatch |-> 4, hashLog |-> 12, target |-> 1, strength |-> 4, window |-> 36]
Dense  == [minMatch |-> 5, hashLog |-> 13, target |-> 0, strength |-> 2, window |-> 1000]
Sparse == [minMatch |-> 8, hashLog |-> 13, target |-> 4, strength |-> 7, window |-> 42]
SearchJob(src, prefix, at, p, finder, attached, ldm) ==
  [kind |-> "search", src |-> src, prefix |-> prefix, at |-> at, p |-> p,
   reps |-> IF prefix = 0 THEN << 1, 4, 8 >> ELSE << 23, 1, 3 >>,
   finder |-> finder, attached |-> attached, ldm |-> ldm]
MCSearchJobs ==
  { SearchJob(s, 0, at, p, f, FALSE, << >>) :
      s \in Sources, at \in {40, 50}, p \in {Quick, Narrow, Dense, Sparse}, f \in {"fast", "dfast"} }
  \cup { SearchJob(s, 24, 50, p, f, FALSE, << >>) :
           s \in Sources, p \in {Quick, Dense}, f \in {"fast", "dfast"} }
  \cup { SearchJob(s, 24, 74, p, "fast", TRUE, << >>) : s \in Sources, p \in {Quick, Dense} }
  \cup { SearchJob(s, prefix, at, p, f, FALSE, << l >>) :
           s \in Sources, prefix \in {0, 20}, at \in {40, 45}, p \in {Quick, Sparse}, f \in {"fast", "dfast"},
           l \in {[minMatch |-> 8, buckets |-> 4, entries |-> 4, rate |-> 0],
                  [minMatch |-> 10, buckets |-> 8, entries |-> 2, rate |-> 2]} }
=============================================================================
