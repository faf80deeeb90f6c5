---------------------------- MODULE LongDistance ----------------------------
(***************************************************************************)
(* Long distance matching (ldm.rs): a table of positions picked by a       *)
(* rolling hash, the long matches it finds in a block, and the block's     *)
(* sequences: those matches, with a finder's in the gaps between them.     *)
(*                                                                         *)
(* l is [minMatch, buckets, entries, rate].  Once minMatch bytes are fed,  *)
(* the rolling hash depends on those bytes alone; a weighted sum stands    *)
(* for it and for the hash of the bytes, as in MatchFinders.               *)
(***************************************************************************)
EXTENDS LongTable, MatchFinders

CONSTANT BatchSize      \* LDM_BATCH_SIZE
ASSUME BatchSizeAssumption == BatchSize \in Nat \ {0}

Weight(src, p, n) ==
  LET upTo[i \in 0 .. n] == IF i = 0 THEN 0 ELSE upTo[i - 1] + (i + 2) * src[p + i]
  IN  upTo[n]
BucketOf(l, src, p)   == Weight(src, p, l.minMatch) % l.buckets
ChecksumOf(l, src, p) == Weight(src, p, l.minMatch) \div l.buckets

\* the positions after `from` whose last minMatch bytes stop the hash
Stops(l, src, p) == Weight(src, p - l.minMatch, l.minMatch) % Raised(1, l.rate) = 0
Stopped(l, src, ps, p) == IF Stops(l, src, p) THEN Append(ps, p) ELSE ps
Triggers(l, src, from, limit) ==
  LET upTo[i \in 0 .. Larger(limit - from, 0)] ==
        IF i = 0 THEN << >> ELSE Stopped(l, src, upTo[i - 1], from + i)
  IN  upTo[Larger(limit - from, 0)]
Feed(l, src, from, limit) ==
  LET all == Triggers(l, src, from, limit)
  IN  IF Len(all) < BatchSize THEN [splits |-> all, upTo |-> limit]
      ELSE [splits |-> SubSeq(all, 1, BatchSize), upTo |-> all[BatchSize]]

-----------------------------------------------------------------------------
(* The table, of the entries of LongTable.                                 *)

NewLdm(l) == [table    |-> [b \in 0 .. l.buckets - 1 |-> [i \in 1 .. l.entries |-> NoEntry]],
              next     |-> [b \in 0 .. l.buckets - 1 |-> 0],
              inserted |-> 0]
ResetLdm(l) == NewLdm(l)

ReducePositions(t, by) ==
  [t EXCEPT !.table = [b \in DOMAIN @ |-> [i \in DOMAIN @[b] |-> ReduceLdm(@[b][i], by)]]]

InsertEntry(l, t, b, entry) ==
  [t EXCEPT !.table[b][t.next[b] + 1] = entry, !.next[b] = (@ + 1) % l.entries, !.inserted = @ + 1]
InsertSplit(l, src, t, split) ==
  InsertEntry(l, t, BucketOf(l, src, split), [pos |-> split, sum |-> ChecksumOf(l, src, split)])

ScanFrom(l, start, end) == Smaller(start + l.minMatch, end)
FillAll(l, src, t, triggers) ==
  LET upTo[i \in 0 .. Len(triggers)] ==
        IF i = 0 THEN t ELSE InsertSplit(l, src, upTo[i - 1], triggers[i] - l.minMatch)
  IN  upTo[Len(triggers)]
FillOnly(l, src, t, start, end) ==
  IF end - start < l.minMatch THEN t
  ELSE FillAll(l, src, t, Triggers(l, src, ScanFrom(l, start, end), end - 8))

-----------------------------------------------------------------------------
(* The block's long matches.  c is [l, src, end, window], g is             *)
(* [ldm, anchor, found].                                                   *)

Back(c, anchor, split, m) == CountBack(c.src, split, m, Smaller(split - anchor, m))

\* the first longest of the bucket's matches, none of fewer than minMatch bytes
Best(c, g, split) ==
  LET bucket == g.ldm.table[BucketOf(c.l, c.src, split)]
      Fwd(i)   == CountMatch(c.src, split, bucket[i].pos, c.end)
      Total(i) == Fwd(i) + Back(c, g.anchor, split, bucket[i].pos)
      cands == {i \in DOMAIN bucket :
                  /\ bucket[i].sum = ChecksumOf(c.l, c.src, split) /\ bucket[i].pos # 0
                  /\ bucket[i].pos < split /\ split - bucket[i].pos <= c.window
                  /\ Fwd(i) >= c.l.minMatch}
      best == CHOOSE i \in cands :
                \A j \in cands : Total(j) <= Total(i) /\ (Total(j) = Total(i) => i <= j)
  IN  IF cands = {} THEN [len |-> 0]
      ELSE [len |-> Total(best), off |-> split - bucket[best].pos,
            at |-> split - Back(c, g.anchor, split, bucket[best].pos)]

TakeBest(g, best) ==
  IF best.len = 0 THEN g
  ELSE [g EXCEPT !.found = Append(@, [ll |-> best.at - g.anchor, off |-> best.off,
                                      ml |-> best.len]),
                 !.anchor = best.at + best.len]
TakeSplit(c, g, split) ==
  TakeBest([g EXCEPT !.ldm = InsertSplit(c.l, c.src, @, split)],
           IF split < g.anchor THEN [len |-> 0] ELSE Best(c, g, split))

\* A match past the batch ends it, and the hash starts again behind it.
NextSplit(c, g, upTo, split) == IF g.anchor > upTo THEN g ELSE TakeSplit(c, g, split)
EachSplit(c, g, splits, upTo) ==
  LET after[i \in 0 .. Len(splits)] ==
        IF i = 0 THEN g ELSE NextSplit(c, after[i - 1], upTo, splits[i] - c.l.minMatch)
  IN  after[Len(splits)]

\* b is [g, ip].  (Each batch moves ip: there are fewer than bytes.)
BatchOf(c, g, f) ==
  LET h == EachSplit(c, g, f.splits, f.upTo) IN [g |-> h, ip |-> Larger(h.anchor, f.upTo)]
Batch(c, b, limit) ==
  IF b.ip >= limit THEN b ELSE BatchOf(c, b.g, Feed(c.l, c.src, b.ip, limit))
Batches(c, g, ip, limit) ==
  LET after[k \in 0 .. Larger(limit - ip, 0)] ==
        IF k = 0 THEN [g |-> g, ip |-> ip] ELSE Batch(c, after[k - 1], limit)
  IN  after[Larger(limit - ip, 0)].g
Generate(l, src, t, start, end, window) ==
  LET g == [ldm |-> t, anchor |-> start, found |-> << >>]
  IN  IF end - start < l.minMatch THEN g
      ELSE Batches([l |-> l, src |-> src, end |-> end, window |-> window], g,
                   ScanFrom(l, start, end), end - 8)

-----------------------------------------------------------------------------
(* compress_block.  `kind` is the finder that searches the gaps; s is      *)
(* [cursor, rep, table, seqs], the state between two long matches.         *)

Search(kind, src, start, end, p, rep, table) ==
  IF kind = "fast" THEN FastSearch(src, start, end, p, rep, table, FALSE, EmptyTable)
  ELSE DfastSearch(src, start, end, p, rep, table)

Consumed(seqs) ==
  LET upTo[i \in 0 .. Len(seqs)] == IF i = 0 THEN 0 ELSE upTo[i - 1] + seqs[i].ll + seqs[i].ml
  IN  upTo[Len(seqs)]
PushRep(off, rep) == << off, rep[1], rep[2] >>

\* (A plausible slip: the literals a gap's search leaves over are dropped.)
LastLiteralsNone(gap, seqs) == IF seqs = << >> THEN gap ELSE 0
LastLiterals(gap, seqs) == gap - Consumed(seqs)

AfterGap(s, q, r) ==
  LET rep == IF r.seqs = << >> THEN s.rep ELSE PushRep(r.seqs[Len(r.seqs)].off, s.rep)
  IN  [cursor |-> s.cursor + q.ll + q.ml, rep |-> PushRep(q.off, rep), table |-> r.table,
       seqs |-> s.seqs \o r.seqs
                \o << [ll |-> LastLiterals(q.ll, r.seqs), off |-> q.off, ml |-> q.ml] >>]
LongMatch(kind, src, p, s, q) ==
  AfterGap(s, q, IF q.ll > 0 THEN Search(kind, src, s.cursor, s.cursor + q.ll, p, s.rep, s.table)
                 ELSE [seqs |-> << >>, table |-> s.table])

Ended(ldm, seqs, r) == [ldm |-> ldm, seqs |-> seqs \o r.seqs, table |-> r.table]
LastGap(ldm, kind, src, end, p, s) ==
  IF s.cursor < end
  THEN Ended(ldm, s.seqs, Search(kind, src, s.cursor, end, p, s.rep, s.table))
  ELSE Ended(ldm, << >>, s)
Filled(found, kind, src, p, s) ==
  LET after[i \in 0 .. Len(found)] ==
        IF i = 0 THEN s ELSE LongMatch(kind, src, p, after[i - 1], found[i])
  IN  after[Len(found)]
Gaps(g, kind, src, start, end, p, rep, table) ==
  LastGap(g.ldm, kind, src, end, p,
          Filled(g.found, kind, src, p,
                 [cursor |-> start, rep |-> rep, table |-> table, seqs |-> << >>]))

\* An empty table is only filled; without a long match the finder has it all.
CompressBlock(l, ldm, kind, src, start, end, p, rep, table) ==
  Gaps(IF ldm.inserted = 0
       THEN [ldm |-> FillOnly(l, src, ldm, start, end), found |-> << >>]
       ELSE Generate(l, src, ldm, start, end, p.window),
       kind, src, start, end, p, rep, table)
=============================================================================
