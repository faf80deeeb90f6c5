----------------------------- MODULE SearchTrips -----------------------------
(***************************************************************************)
(* From bytes to sequences and back: two blocks of a buffer searched one   *)
(* after the other, behind a prefix that a dictionary provides, and then   *)
(* executed by the decoder.                                                *)
(***************************************************************************)
EXTENDS LongDistance, BlockCopies

CONSTANT SearchJobs    \* [kind, src, prefix, at, reps, p, finder, attached, ldm]: the
                       \* blocks meet at `at`; reps are the offsets the frame starts with;
                       \* ldm is << >>, or << l >> with long distance matching

\* The word matters to the decoder's half only.
Packer == INSTANCE RepOffsets WITH Word <- 65536

IsLevel(p) ==
  /\ p.minMatch \in Nat /\ p.hashLog \in Nat /\ p.target \in Nat /\ p.strength \in Nat
  /\ p.window \in Nat
IsLdm(l) ==
  l.minMatch \in Nat /\ l.buckets \in Nat \ {0} /\ l.entries \in Nat \ {0} /\ l.rate \in Nat
IsSearchJob(j) ==
  /\ j.kind = "search"
  /\ j.src \in Seq(Nat) /\ j.at \in 0 .. Len(j.src) /\ j.prefix \in 0 .. j.at
  /\ j.reps \in (Nat \ {0}) \X (Nat \ {0}) \X (Nat \ {0})
  /\ IsLevel(j.p) /\ j.finder \in {"fast", "dfast"}
  /\ j.attached \in BOOLEAN /\ (j.attached => j.finder = "fast")
  /\ Len(j.ldm) \in {0, 1} /\ (Len(j.ldm) = 1 => IsLdm(j.ldm[1]))
ASSUME SearchJobsAssumption == \A j \in SearchJobs : IsSearchJob(j)

VARIABLES
  job,       \* the job in hand
  stage,     \* "new", "built", "coded", "decoded"
  built, coded, result

searchVars == << job, stage, built, coded, result >>

Nothing == [none |-> TRUE]

-----------------------------------------------------------------------------
(* The encoder's side: what the tables hold before the first block, each   *)
(* block's sequences, and the recent offsets once they are packed.         *)

StartTables(j) ==
  IF j.finder = "fast"
  THEN IF j.prefix > 0 /\ ~j.attached THEN PrefillFast(j.src, j.prefix, j.p) ELSE EmptyTable
  ELSE IF j.prefix > 0 THEN PrefillDfast(j.src, j.prefix, j.p)
  ELSE [short |-> EmptyTable, long |-> EmptyTable]

SearchBlock(j, start, end, rep, table, ldm) ==
  IF Len(j.ldm) = 1 THEN CompressBlock(j.ldm[1], ldm, j.finder, j.src, start, end, j.p, rep, table)
  ELSE IF j.attached
  THEN FastSearch(j.src, j.prefix, end, j.p, rep, table, TRUE, PrefillFast(j.src, j.prefix, j.p))
  ELSE Search(j.finder, j.src, start, end, j.p, rep, table)

PackedOffsets(reps, seqs) ==
  LET after[i \in 0 .. Len(seqs)] ==
        IF i = 0 THEN reps
        ELSE Packer!PackedHistory(after[i - 1], seqs[i].off, seqs[i].ll = 0)
  IN  after[Len(seqs)]

SearchBuilt(j) ==
  SearchBlock(j, j.prefix, j.at, j.reps, StartTables(j),
              IF Len(j.ldm) = 0 THEN Nothing ELSE NewLdm(j.ldm[1]))
SearchCoded(j, b, reps) ==
  IF j.attached THEN [seqs |-> << >>]
  ELSE SearchBlock(j, j.at, Len(j.src), reps, b.table,
                   IF Len(j.ldm) = 0 THEN Nothing ELSE b.ldm)

-----------------------------------------------------------------------------
(* The decoder's side: a block executed, with and without slack behind its *)
(* literals.                                                               *)

Executed(j, start, end, seqs, slack) ==
  ExecuteBlock(Part(j.src, j.prefix, start - j.prefix), end - start, 0, seqs,
               LiteralsOf(j.src, start, end, seqs), [i \in 1 .. slack |-> 0],
               Part(j.src, 0, j.prefix))
SearchDecoded(j, b, c) ==
  [first  |-> << Executed(j, j.prefix, j.at, b.seqs, 0), Executed(j, j.prefix, j.at, b.seqs, 40) >>,
   second |-> << Executed(j, j.at, Len(j.src), c.seqs, 0),
                 Executed(j, j.at, Len(j.src), c.seqs, 40) >>]

-----------------------------------------------------------------------------
SearchInit ==
  /\ job \in SearchJobs
  /\ stage = "new"
  /\ built = Nothing /\ coded = Nothing /\ result = Nothing

SearchBuild ==
  /\ job.kind = "search" /\ stage = "new" /\ stage' = "built"
  /\ built' = SearchBuilt(job)
  /\ UNCHANGED << job, coded, result >>

\* A first block that is stored raw leaves the offsets as they were.
SearchCode ==
  /\ job.kind = "search" /\ stage = "built" /\ stage' = "coded"
  /\ \E reps \in {job.reps, PackedOffsets(job.reps, built.seqs)} :
       coded' = SearchCoded(job, built, reps)
  /\ UNCHANGED << job, built, result >>

SearchDecode ==
  /\ job.kind = "search" /\ stage = "coded" /\ stage' = "decoded"
  /\ result' = SearchDecoded(job, built, coded)
  /\ UNCHANGED << job, built, coded >>

SearchNext == SearchBuild \/ SearchCode \/ SearchDecode

SearchSpec == SearchInit /\ [][SearchNext]_searchVars

-----------------------------------------------------------------------------
(* The sequences that the match finders leave, executed by the decoder's   *)
(* chunked copies, are the block they were found in, with a dictionary     *)
(* before it or an earlier block, and no copy leaves its buffer.           *)
SearchReproduces ==
  stage = "decoded" /\ job.kind = "search" =>
    \A i \in 1 .. 2 :
      /\ result.first[i].ok /\ result.first[i].out = Part(job.src, job.prefix, job.at - job.prefix)
      /\ job.attached \/ (/\ result.second[i].ok
                          /\ result.second[i].out
                               = Part(job.src, job.prefix, Len(job.src) - job.prefix))
=============================================================================
