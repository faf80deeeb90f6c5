---------------------------- MODULE MatchFinders ----------------------------
(***************************************************************************)
(* The two match finders: cursors, tables of earlier positions, and the    *)
(* sequences they emit.                                                    *)
(*                                                                         *)
(* src is the buffer (byte p is src[p + 1]), a sequence [ll, off, ml].     *)
(* Which function hashes does not matter, as long as equal bytes get the   *)
(* same slot: a weighted sum stands for the multiplications, over few      *)
(* enough slots that different bytes meet.                                 *)
(***************************************************************************)
EXTENDS Integers, Sequences

CONSTANT Slots          \* slots of a table: 1 << hash_log
ASSUME SlotsAssumption == Slots \in Nat \ {0}

At(src, p, n) == SubSeq(src, p + 1, p + n)
Slot(src, p, n) ==
  LET upTo[i \in 0 .. n] == IF i = 0 THEN 0 ELSE upTo[i - 1] + i * src[p + i]
  IN  upTo[n] % Slots
Stored(table, src, p, n) == [table EXCEPT ![Slot(src, p, n)] = p]

Smaller(a, b) == IF a < b THEN a ELSE b
Larger(a, b)  == IF a > b THEN a ELSE b
\* x << n and x >> n
Raised(x, n)  == LET upTo[i \in 0 .. n] == IF i = 0 THEN x ELSE upTo[i - 1] * 2 IN upTo[n]
Shifted(x, n) == LET upTo[i \in 0 .. n] == IF i = 0 THEN x ELSE upTo[i - 1] \div 2 IN upTo[n]

\* equal bytes from p1 and p2 on, before limit, and before a and b
CountMatch(src, p1, p2, limit) ==
  CHOOSE n \in 0 .. limit - p1 :
    /\ At(src, p1, n) = At(src, p2, n)
    /\ n < limit - p1 => src[p1 + n + 1] # src[p2 + n + 1]
CountBack(src, a, b, most) ==
  CHOOSE n \in 0 .. most :
    /\ At(src, a - n, n) = At(src, b - n, n)
    /\ n < most => src[a - n] # src[b - n]

-----------------------------------------------------------------------------
(* The fast finder.                                                        *)

\* compress_fast_block: the body's constants, a hash_log of 0 being none
FixedLogs == [mls \in 4 .. 8 |->
  CASE mls = 4 -> 14 .. 17 [] mls = 5 -> {13} [] mls = 6 -> 13 .. 16
    [] mls = 7 -> 13 .. 15 [] mls = 8 -> {13}]
Clamped(minMatch) == Smaller(Larger(minMatch, 4), 8)
Variant(p) ==
  [mls |-> Clamped(p.minMatch),
   log |-> IF p.hashLog \in FixedLogs[Clamped(p.minMatch)] THEN p.hashLog ELSE 0]

\* What fast_block_generic derives before it searches.  `dict` is the
\* attached table, for positions below prefix.
FastContext(src, start, end, p, attached, dict) ==
  LET v == IF attached THEN [Variant(p) EXCEPT !.log = 0] ELSE Variant(p)
      special == v.log = 14 /\ v.mls = 4
      strength == IF special THEN 8 ELSE p.strength
  IN  [src |-> src, end |-> end, mls |-> v.mls, window |-> p.window,
       confirm |-> IF v.mls = 8 THEN 8 ELSE 4,
       step |-> IF special THEN 2 ELSE Larger(p.target, 1) + 1,
       strength |-> strength,
       shift |-> IF special THEN 5
                 ELSE IF p.minMatch = 4 /\ p.target = 1 THEN Smaller(strength, 3)
                 ELSE strength,
       ilimit |-> Smaller(end - v.mls, Len(src) - 8),
       attached |-> attached, dict |-> dict, prefix |-> start]

Confirms(c, p, ip) == At(c.src, p, c.confirm) = At(c.src, ip, c.confirm)

InWindow(c, ip, m) == m < ip /\ ip - m <= c.window

NoMatch == -1
FindMatch(c, ip, m) ==
  IF InWindow(c, ip, m) /\ Confirms(c, m, ip) THEN m
  ELSE IF ~c.attached THEN NoMatch
  ELSE LET d == c.dict[Slot(c.src, ip, c.mls)]
       IN  IF d < c.prefix /\ InWindow(c, ip, d) /\ Confirms(c, d, ip) THEN d ELSE NoMatch

Put(c, s, p) ==
  IF p + c.mls <= Len(c.src) THEN [s EXCEPT !.table = Stored(@, c.src, p, c.mls)] ELSE s

\* another match, of the second repeat offset, where the last one ended
RepeatsHere(c, s, r) ==
  s.ip <= c.ilimit /\ s.ip >= r /\ At(c.src, s.ip, 4) = At(c.src, s.ip - r, 4)
RepeatMatch(c, s, put, r) ==
  LET len == CountMatch(c.src, s.ip + 4, s.ip - r + 4, c.end) + 4
  IN  [put EXCEPT !.rep = << r, s.rep[1] >>,
                  !.seqs = Append(@, [ll |-> 0, off |-> r, ml |-> len]),
                  !.ip = s.ip + len, !.anchor = s.ip + len]

\* (Each is four bytes or longer: the loop's rounds end.)
Rep2Round(c, s) ==
  IF RepeatsHere(c, s, s.rep[2]) THEN RepeatMatch(c, s, Put(c, s, s.ip), s.rep[2]) ELSE s
Rep2Loop(c, s) ==
  LET upTo[k \in 0 .. (c.end - s.ip) \div 4] ==
        IF k = 0 THEN s ELSE Rep2Round(c, upTo[k - 1])
  IN  upTo[(c.end - s.ip) \div 4]

\* A match of len bytes at `at`, found while ip0 was `fill`.
Emit(c, s, fill, at, off, len, rep) ==
  LET end == at + len
      out == [s EXCEPT !.seqs = Append(@, [ll |-> at - s.anchor, off |-> off, ml |-> len]),
                       !.ip = end, !.anchor = end, !.rep = rep]
  IN  IF end > c.ilimit THEN out
      ELSE Rep2Loop(c, Put(c, Put(c, out, fill + 2), end - 2))

\* the rep match at ip2, one byte longer in front if it can be
EmitRep(c, s, fill, ip2) ==
  LET rep  == s.rep[1]
      back == IF ip2 > s.anchor /\ ip2 > rep /\ c.src[ip2] = c.src[ip2 - rep] THEN 1 ELSE 0
      len  == CountMatch(c.src, ip2 + c.confirm, ip2 - rep + c.confirm, c.end) + c.confirm
  IN  Emit(c, s, fill, ip2 - back, rep, len + back, s.rep)

EmitFound(c, s, ip, m) ==
  LET back == CountBack(c.src, ip, m, Smaller(ip - s.anchor, m))
      len  == CountMatch(c.src, ip + c.confirm, m + c.confirm, c.end) + c.confirm
  IN  Emit(c, s, ip, ip - back, ip - m, len + back, << ip - m, s.rep[1] >>)

\* The search at s.ip and, ahead of it, at ip2, if it is still `on`.
FastFrom(c, s) == [s |-> s, ip2 |-> s.ip + c.step, on |-> s.ip + c.step + 1 < c.ilimit]

\* A round probes ip0 (after the rep at ip2) and the position behind it.
FastProbes(c, s, ip2) ==
  LET ip0 == s.ip
      s0  == Put(c, s, ip0)
      s1  == Put(c, s0, ip0 + 1)
      m0  == FindMatch(c, ip0, s.table[Slot(c.src, ip0, c.mls)])
      m1  == FindMatch(c, ip0 + 1, s0.table[Slot(c.src, ip0 + 1, c.mls)])
      dense == c.step + Shifted(ip0 + 1 - s.anchor, c.strength) <= 4
      next == ip2 + c.step + Shifted(ip2 - s.anchor, c.shift)
  IN  IF ip2 >= s.rep[1] /\ Confirms(c, ip2 - s.rep[1], ip2)
      THEN FastFrom(c, EmitRep(c, s1, ip0, ip2))
      ELSE IF m0 # NoMatch THEN FastFrom(c, EmitFound(c, s1, ip0, m0))
      ELSE IF m1 # NoMatch
      THEN FastFrom(c, EmitFound(c, IF dense THEN Put(c, s1, ip2) ELSE s1, ip0 + 1, m1))
      ELSE [s |-> [s1 EXCEPT !.ip = ip2], ip2 |-> next, on |-> next + 1 < c.ilimit]
FastRound(c, f) == IF f.on THEN FastProbes(c, f.s, f.ip2) ELSE f
\* (Each round moves ip by two bytes or more.)
FastRounds(c, s, n) ==
  LET upTo[k \in 0 .. n] == IF k = 0 THEN FastFrom(c, s) ELSE FastRound(c, upTo[k - 1])
  IN  upTo[n].s

FastSearch(src, start, end, p, rep, table, attached, dict) ==
  LET s == [ip |-> start, anchor |-> start, rep |-> rep, table |-> table, seqs |-> << >>]
  IN  IF end - start < 8 THEN s
      ELSE FastRounds(FastContext(src, start, end, p, attached, dict), s, (end - start) \div 2)

-----------------------------------------------------------------------------
(* Tables of a dictionary's positions.                                     *)

EmptyTable == [i \in 0 .. Slots - 1 |-> 0]
StoreAll(table, src, n, ps) ==
  LET upTo[i \in 0 .. Len(ps)] == IF i = 0 THEN table ELSE Stored(upTo[i - 1], src, ps[i], n)
  IN  upTo[Len(ps)]

\* every step-th position, and every one from the tail's start
TailStart(n) == Larger(n - 64, 0)
Prefilled(src, ends, tail, prefix, n) ==
  LET step == Larger(prefix \div Slots, 1)
  IN  StoreAll(EmptyTable, src, n,
               [i \in 1 .. (ends + step - 1) \div step |-> (i - 1) * step]
               \o [i \in 1 .. ends - tail |-> tail + i - 1])
PrefillFast(src, prefix, p) ==
  LET ends == Smaller(prefix, Larger(Len(src) - 7, 0))
  IN  Prefilled(src, ends, TailStart(ends), prefix, Clamped(p.minMatch))

ShortMls(minMatch) == Smaller(Larger(minMatch, 4), 5)
PrefillDfast(src, prefix, p) ==
  IF prefix < 8 THEN [short |-> EmptyTable, long |-> EmptyTable]
  ELSE LET Filled(n) == Prefilled(src, prefix - 7, TailStart(prefix), prefix, n)
       IN  [short |-> Filled(ShortMls(p.minMatch)), long |-> Filled(8)]

-----------------------------------------------------------------------------
(* The dfast finder: a table of short hashes and one of long ones.         *)

Short(c, s, p) == s.table.short[Slot(c.src, p, c.mls)]
Long(c, s, p)  == s.table.long[Slot(c.src, p, 8)]
PutShort(c, s, p) == [s EXCEPT !.table.short = Stored(@, c.src, p, c.mls)]
PutLong(c, s, p)  == [s EXCEPT !.table.long = Stored(@, c.src, p, 8)]
PutBoth(c, s, p)  == PutShort(c, PutLong(c, s, p), p)

Alike(c, m, p, n) == m >= c.low /\ At(c.src, m, n) = At(c.src, p, n)

Rep1Round(c, s) ==
  IF RepeatsHere(c, s, s.rep[2]) THEN RepeatMatch(c, s, PutBoth(c, s, s.ip), s.rep[2]) ELSE s
Rep1Loop(c, s) ==
  LET upTo[k \in 0 .. (c.end - s.ip) \div 4] ==
        IF k = 0 THEN s ELSE Rep1Round(c, upTo[k - 1])
  IN  upTo[(c.end - s.ip) \div 4]

AfterMatch(c, s, curr) ==
  IF s.ip > c.ilimit THEN s
  ELSE Rep1Loop(c, PutShort(c, PutLong(c, PutBoth(c, s, curr + 2), s.ip - 2), s.ip - 1))

EmitDfast(c, s, curr, at, off, len, rep) ==
  AfterMatch(c, [s EXCEPT !.seqs = Append(@, [ll |-> at - s.anchor, off |-> off, ml |-> len]),
                          !.ip = at + len, !.anchor = at + len, !.rep = rep], curr)

\* At ip: a long match, else a short one, unless a long one a step ahead is
\* longer.  (s is the state with ip stored.)
LenOf(c, m, p, n) == CountMatch(c.src, p + n, m + n, c.end) + n
Found(c, before, s, ip, ip1) ==
  LET l0 == Long(c, before, ip)
      s0 == Short(c, before, ip)
      l1 == Long(c, s, ip1)
      Cand(p, m, n) == [p |-> p, m |-> m, len |-> LenOf(c, m, p, n)]
  IN  IF Alike(c, l0, ip, 8) THEN Cand(ip, l0, 8)
      ELSE IF ~Alike(c, s0, ip, 4) THEN [p |-> NoMatch]
      ELSE IF Alike(c, l1, ip1, 8) /\ LenOf(c, l1, ip1, 8) > LenOf(c, s0, ip, 4)
      THEN Cand(ip1, l1, 8) ELSE Cand(ip, s0, 4)

DfastFrom(c, s) ==
  [s |-> s, ip1 |-> s.ip + 1, step |-> 1, nextStep |-> s.ip + c.incr, on |-> s.ip + 1 <= c.ilimit]
DfastProbes(c, s, ip1, step, nextStep) ==
  LET ip == s.ip
      t  == PutBoth(c, s, ip)
      r  == s.rep[1]
      f  == Found(c, s, t, ip, ip1)
      back == CountBack(c.src, f.p, f.m, Smaller(f.p - s.anchor, f.m - c.low))
      grown == IF ip1 >= nextStep THEN 1 ELSE 0
  IN  IF ip + 1 >= r /\ At(c.src, ip + 1 - r, 4) = At(c.src, ip + 1, 4)
      THEN DfastFrom(c, EmitDfast(c, t, ip, ip + 1, r, LenOf(c, ip + 1 - r, ip + 1, 4), s.rep))
      ELSE IF f.p # NoMatch
      THEN DfastFrom(c, EmitDfast(c, IF step < 4 THEN PutLong(c, t, ip1) ELSE t, ip,
                                  f.p - back, f.p - f.m, f.len + back, << f.p - f.m, r >>))
      ELSE [s |-> [t EXCEPT !.ip = ip1], ip1 |-> ip1 + step + grown, step |-> step + grown,
            nextStep |-> nextStep + grown * c.incr, on |-> ip1 + step + grown <= c.ilimit]
DfastRound(c, f) == IF f.on THEN DfastProbes(c, f.s, f.ip1, f.step, f.nextStep) ELSE f
DfastRounds(c, s, n) ==
  LET upTo[k \in 0 .. n] == IF k = 0 THEN DfastFrom(c, s) ELSE DfastRound(c, upTo[k - 1])
  IN  upTo[n].s

DfastSearch(src, start, end, p, rep, table) ==
  LET s == [ip |-> start, anchor |-> start, rep |-> rep, table |-> table, seqs |-> << >>]
      c == [src |-> src, end |-> end, mls |-> ShortMls(p.minMatch),
            ilimit |-> Smaller(end, Len(src)) - 8, incr |-> Raised(1, p.strength),
            low |-> Larger(end - p.window, 0)]
  IN  IF end - start < 16 \/ Len(src) < 16 THEN s
      ELSE DfastRounds(c, [s EXCEPT !.ip = start + (IF start = 0 THEN 1 ELSE 0)], end - start - 8)

-----------------------------------------------------------------------------
\* the literals of a block: what its sequences do not copy
LiteralsOf(src, start, end, seqs) ==
  LET at[i \in 0 .. Len(seqs)] ==
        IF i = 0 THEN start ELSE at[i - 1] + seqs[i].ll + seqs[i].ml
      lits[i \in 0 .. Len(seqs)] ==
        IF i = 0 THEN << >> ELSE lits[i - 1] \o At(src, at[i - 1], seqs[i].ll)
  IN  lits[Len(seqs)] \o At(src, at[Len(seqs)], end - at[Len(seqs)])
=============================================================================
