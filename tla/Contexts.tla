------------------------------ MODULE Contexts ------------------------------
(***************************************************************************)
(* The hash tables of a CompressContext.                                   *)
(*                                                                         *)
(* A context keeps its tables from call to call, whatever level,           *)
(* dictionary, input size or full output slice the calls bring.  Every     *)
(* path of a call resizes, clears, prefills or restores the tables it is   *)
(* going to search, each in its own way.  A search must find tables of the *)
(* size it hashes to, with nothing of another input or dictionary in them, *)
(* and the dictionary hashed as it hashes itself.                          *)
(*                                                                         *)
(* An entry is known by what its position belongs to and how it was        *)
(* hashed: the bytes hashed and the bits kept.                             *)
(***************************************************************************)
EXTENDS Integers, FiniteSets

CONSTANTS
  Levels,           \* records: strategy, hash, chain, min, rawLimit, smallMin
  Dicts,            \* dictionaries
  DictLen,          \* length of their content
  InputLens,        \* lengths of inputs
  ExpectedLens,     \* sizes a context with a dictionary may expect
  Unbounded,        \* usize::MAX, the size expected by default
  MinLog,           \* HASH_LOG_MIN
  MaxBlock,         \* MAX_BLOCK_SIZE
  AttachThreshold,  \* ATTACH_THRESHOLD
  HashRead          \* bytes read to hash a position

NoDict == "no dictionary"
Input  == "input"
Past   == "past"
Strategies == {"fast", "dfast"}

Level == [strategy : Strategies, hash : Nat, chain : Nat, min : Nat,
          rawLimit : Int, smallMin : Nat]

ASSUME ConstantsAssumption ==
  /\ Levels \subseteq Level
  /\ {NoDict, Input, Past} \cap Dicts = {}
  /\ DictLen \in [Dicts -> Nat]
  /\ InputLens \subseteq Nat /\ ExpectedLens \subseteq Nat /\ Unbounded \in Nat
  /\ MinLog \in Nat /\ MaxBlock \in Nat \ {0} /\ AttachThreshold \in 0 .. MaxBlock
  /\ HashRead \in Nat \ {0}

VARIABLES
  level,      \* level
  expected,   \* dict: the size expected
  stored,     \* dict: the dictionary, or NoDict
  prepared,   \* prepared, if there is a dictionary
  main,       \* hash_table
  long,       \* hash_long
  beside,     \* dict_hash
  small,      \* small_hash
  call        \* the search of the frame in progress

ownVars == << level, expected, stored, prepared >>
vars == << ownVars, main, long, beside, small, call >>

-----------------------------------------------------------------------------
(* Level parameters.                                                       *)

GreaterOf(a, b) == IF a > b THEN a ELSE b
LesserOf(a, b) == IF a < b THEN a ELSE b

(* The bits that address n bytes.                                          *)
SrcLog(n) == Cardinality({k \in 0 .. n - 1 : 2 ^ k < n})

(* A level's log, reduced for a short input.                               *)
SizedLog(log, n) ==
  IF n >= 2 /\ n < Unbounded THEN GreaterOf(LesserOf(log, SrcLog(n)), MinLog)
                             ELSE GreaterOf(log, MinLog)

(* level_params_for_size.  `n` counts the dictionary and the input.        *)
ParamsForSize(lev, n) ==
  [strategy |-> lev.strategy,
   hash     |-> SizedLog(lev.hash, n),
   chain    |-> SizedLog(lev.chain, n),
   min      |-> IF n <= lev.rawLimit THEN lev.smallMin ELSE lev.min]

Params == [strategy : Strategies, hash : Nat, chain : Nat, min : Nat]

-----------------------------------------------------------------------------
(* Tables, whose lengths are powers of two; Absent is the empty one.       *)

Sources == Dicts \cup {Input, Past}
Key == [width : Nat, log : Nat]
Entry == [of : Sources, key : Key]
Absent == -1
Table == [log : Nat \cup {Absent}, entries : SUBSET Entry]

Zeroed(log) == [log |-> log, entries |-> {}]
NoTable == Zeroed(Absent)

MainKey(p) == [width |-> p.min, log |-> IF p.strategy = "fast" THEN p.hash ELSE p.chain]
LongKey(p) == [width |-> 8, log |-> p.hash]

(* resize: what was there stays, as far as it fits.                        *)
(* (A plausible slip: a table that is larger already is left so.)          *)
ResizedGrown(t, log) == IF t.log < log THEN [t EXCEPT !.log = log] ELSE t
Resized(t, log) == [t EXCEPT !.log = log]

(* fill(0).  (A plausible slip: a table of the right size is not cleared.) *)
ClearedOnce(t) == t
Cleared(t) == Zeroed(t.log)

(* prefill_hash_table and prefill_hash_tables: dictionary positions whose  *)
(* bytes can be read.  fast may read on into the input behind them.        *)
DictEntries(d, readable, key) ==
  IF DictLen[d] > 0 /\ readable >= HashRead THEN {[of |-> d, key |-> key]} ELSE {}
Prefilled(t, d, readable, key) ==
  [Cleared(t) EXCEPT !.entries = DictEntries(d, readable, key)]

(* What a frame leaves in a table is of no use to the next one.            *)
Stale == [of |-> Past, key |-> [width |-> 0, log |-> 0]]
Aged(t) == IF t.entries = {} THEN t ELSE [t EXCEPT !.entries = {Stale}]

-----------------------------------------------------------------------------
(* Prepared dictionaries.                                                  *)

AttachedLog(d, p) ==
  IF DictLen[d] >= 2
  THEN GreaterOf(MinLog, LesserOf(SrcLog(DictLen[d]) + 1, GreaterOf(p.hash, MinLog)))
  ELSE MinLog

(* The minimum matches that inputs up to a block use.                      *)
AttachedWidths(lev, d) ==
  IF lev.strategy = "fast"
  THEN {ParamsForSize(lev, DictLen[d] + n).min : n \in {1, AttachThreshold, MaxBlock}}
  ELSE {}

AttachedTable(d, width, log) ==
  Prefilled(Zeroed(log), d, DictLen[d], [width |-> width, log |-> log])

(* PreparedDict::new: a snapshot of the tables after the dictionary, and   *)
(* tables of the dictionary alone for short inputs.                        *)
Prepare(d, lev, size) ==
  LET p   == ParamsForSize(lev, DictLen[d] + size)
      log == AttachedLog(d, p)
  IN  [snapshot |-> Prefilled(Zeroed(MainKey(p).log), d, DictLen[d], MainKey(p)),
       snapshotLong |-> IF p.strategy = "dfast"
                        THEN Prefilled(Zeroed(p.hash), d, DictLen[d], LongKey(p))
                        ELSE NoTable,
       attached |-> [w \in AttachedWidths(lev, d) |-> AttachedTable(d, w, log)],
       attachedLog |-> log]

Nothing == [snapshot |-> NoTable, snapshotLong |-> NoTable,
            attached |-> [w \in {} |-> NoTable], attachedLog |-> MinLog]

(* The snapshot has the sizes that the input's parameters ask for.         *)
SnapshotMatches(p) ==
  /\ prepared.snapshot.log = MainKey(p).log
  /\ p.strategy = "dfast" => prepared.snapshotLong.log = p.hash

(* A short input keeps the dictionary in its own table.                    *)
(* (A plausible slip: its table is taken to be there.)                     *)
UseAttachedAnyStrategy(p, n) ==
  /\ n \in 1 .. MaxBlock
  /\ n <= AttachThreshold \/ ~SnapshotMatches(p)
UseAttached(p, n) ==
  /\ p.strategy = "fast"
  /\ n \in 1 .. MaxBlock
  /\ n <= AttachThreshold \/ ~SnapshotMatches(p)
  /\ p.min \in DOMAIN prepared.attached

-----------------------------------------------------------------------------
(* Calls.                                                                  *)

(* Where the dictionary is while a frame is searched: nowhere, in the      *)
(* input's tables, beside them, or attached.                               *)
Paths == {"plain", "prefilled", "beside", "attached"}

Idle == [searching |-> FALSE]
Call == [searching : {TRUE}, path : Paths, params : Params, inputLog : Nat,
         dict : Dicts \cup {NoDict}, blocks : Nat, fallible : BOOLEAN]

BlocksOf(n) == (n + MaxBlock - 1) \div MaxBlock

Search(path, p, log, d, n, fallible) ==
  call' = [searching |-> TRUE, path |-> path, params |-> p, inputLog |-> log,
           dict |-> d, blocks |-> BlocksOf(n), fallible |-> fallible]

(* A frame without content is written at once.                             *)
EmptyFrame == UNCHANGED call

HasContent(d) == IF d = NoDict THEN FALSE ELSE DictLen[d] > 0

(* compress_core, for fast: a dictionary in front of one block goes        *)
(* beside the input's table.                                               *)
CoreFast(p, d, n, fallible) ==
  LET sized == Resized(main, p.hash)
      key   == MainKey(p)
  IN  \/ /\ HasContent(d) /\ n <= MaxBlock
         /\ beside' = Prefilled(Resized(beside, p.hash), d, DictLen[d] + n, key)
         /\ main' = Cleared(sized)
         /\ Search("beside", p, p.hash, d, n, fallible)
         /\ UNCHANGED << long, small >>
      \/ /\ HasContent(d) /\ n > MaxBlock
         /\ main' = Prefilled(sized, d, DictLen[d] + n, key)
         /\ Search("prefilled", p, p.hash, d, n, fallible)
         /\ UNCHANGED << long, beside, small >>
      \/ /\ ~HasContent(d)
         /\ main' = Cleared(sized)
         /\ Search("plain", p, p.hash, d, n, fallible)
         /\ UNCHANGED << long, beside, small >>

(* compress_core, for dfast: both tables hold the dictionary.              *)
CoreDfast(p, d, n, fallible) ==
  LET sized     == Resized(main, p.chain)
      sizedLong == Resized(long, p.hash)
  IN  /\ \/ /\ HasContent(d)
            /\ main' = Prefilled(sized, d, DictLen[d], MainKey(p))
            /\ long' = Prefilled(sizedLong, d, DictLen[d], LongKey(p))
            /\ Search("prefilled", p, p.chain, d, n, fallible)
         \/ /\ ~HasContent(d)
            /\ main' = Cleared(sized)
            /\ long' = Cleared(sizedLong)
            /\ Search("plain", p, p.chain, d, n, fallible)
      /\ UNCHANGED << beside, small >>

Core(p, d, n, fallible) ==
  \/ n = 0 /\ EmptyFrame /\ UNCHANGED << main, long, beside, small >>
  \/ n > 0 /\ p.strategy = "fast" /\ CoreFast(p, d, n, fallible)
  \/ n > 0 /\ p.strategy = "dfast" /\ CoreDfast(p, d, n, fallible)

(* compress_with_prepared.                                                 *)
InputLog(p, n) ==
  IF n >= 2 THEN GreaterOf(LesserOf(p.hash, SrcLog(n)), MinLog) ELSE MinLog

Attach(p, n, fallible) ==
  /\ UseAttached(p, n)
  /\ small' = Cleared(Resized(small, InputLog(p, n)))
  /\ Search("attached", p, InputLog(p, n), stored, n, fallible)
  /\ UNCHANGED << main, long, beside >>

Restore(p, n, fallible) ==
  /\ ~UseAttached(p, n) /\ SnapshotMatches(p)
  /\ main' = prepared.snapshot
  /\ long' = IF prepared.snapshotLong # NoTable THEN prepared.snapshotLong ELSE long
  /\ IF n = 0 THEN EmptyFrame ELSE Search("prefilled", p, MainKey(p).log, stored, n, fallible)
  /\ UNCHANGED << beside, small >>

Fallback(p, n, fallible) ==
  /\ ~UseAttached(p, n) /\ ~SnapshotMatches(p)
  /\ Core(p, stored, n, fallible)

(* compress and compress_into, which may run out of output.                *)
Compress(n, fallible) ==
  LET p == ParamsForSize(level, n + IF stored = NoDict THEN 0 ELSE DictLen[stored])
  IN  /\ ~call.searching
      /\ \/ stored = NoDict /\ Core(p, NoDict, n, fallible)
         \/ /\ stored # NoDict
            /\ Attach(p, n, fallible) \/ Restore(p, n, fallible) \/ Fallback(p, n, fallible)
      /\ UNCHANGED ownVars

(* compress_with_dict: another dictionary for one call.                    *)
CompressWithDict(d, n) ==
  /\ ~call.searching
  /\ Core(ParamsForSize(level, DictLen[d] + n), d, n, FALSE)
  /\ UNCHANGED ownVars

(* (A plausible slip: the dictionary is prepared once and for all.)        *)
PreparedAtOnce(lev) == prepared
PreparedFor(lev) == IF stored = NoDict THEN prepared ELSE Prepare(stored, lev, expected)

SetLevel(lev) ==
  /\ ~call.searching
  /\ lev # level
  /\ level' = lev
  /\ prepared' = PreparedFor(lev)
  /\ UNCHANGED << expected, stored, main, long, beside, small, call >>

-----------------------------------------------------------------------------
(* Blocks.                                                                 *)

InputKey == IF call.path = "attached" THEN [width |-> call.params.min, log |-> call.inputLog]
                                      ELSE MainKey(call.params)
With(t, key) == [t EXCEPT !.entries = @ \cup {[of |-> Input, key |-> key]}]

(* One block is searched, which enters its positions; a block without a    *)
(* search enters none, and so may a short one.                             *)
SearchBlock ==
  /\ call.searching /\ call.blocks > 0
  /\ call' = [call EXCEPT !.blocks = @ - 1]
  /\ \/ UNCHANGED << main, long, small >>
     \/ /\ call.path = "attached"
        /\ small' = With(small, InputKey)
        /\ UNCHANGED << main, long >>
     \/ /\ call.path # "attached"
        /\ main' = With(main, InputKey)
        /\ long' = IF call.params.strategy = "dfast" THEN With(long, LongKey(call.params))
                                                     ELSE long
        /\ UNCHANGED small
  /\ UNCHANGED << ownVars, beside >>

(* The frame is done, or its output slice is full.                         *)
EndCall ==
  /\ call.searching
  /\ call.blocks = 0 \/ call.fallible
  /\ call' = Idle
  /\ main' = Aged(main) /\ long' = Aged(long)
  /\ beside' = Aged(beside) /\ small' = Aged(small)
  /\ UNCHANGED ownVars

-----------------------------------------------------------------------------
(* new, with_dict and with_dict_for_size.                                  *)
NewTable(lev) == Zeroed(GreaterOf(lev.hash, lev.chain))

Init ==
  /\ level \in Levels
  /\ stored \in Dicts \cup {NoDict}
  /\ expected \in IF stored = NoDict THEN {Unbounded} ELSE ExpectedLens \cup {Unbounded}
  /\ prepared = IF stored = NoDict THEN Nothing ELSE Prepare(stored, level, expected)
  /\ main = IF stored = NoDict THEN NewTable(level) ELSE Zeroed(prepared.snapshot.log)
  /\ long = IF stored # NoDict THEN Zeroed(prepared.snapshotLong.log)
            ELSE IF level.strategy = "dfast" THEN NewTable(level) ELSE NoTable
  /\ beside = NoTable /\ small = NoTable
  /\ call = Idle

Next ==
  \/ \E n \in InputLens :
       \/ \E fallible \in BOOLEAN : Compress(n, fallible)
       \/ \E d \in Dicts : CompressWithDict(d, n)
  \/ \E lev \in Levels : SetLevel(lev)
  \/ SearchBlock
  \/ EndCall

Spec == Init /\ [][Next]_vars

-----------------------------------------------------------------------------
(* Properties.                                                             *)

(* The tables that the search in progress looks in, and how it hashes.     *)
View(t, key) == [table |-> t, key |-> key]
InputViews ==
  IF call.path = "attached" THEN {View(small, InputKey)}
  ELSE {View(main, InputKey)} \cup
       IF call.params.strategy = "dfast" THEN {View(long, LongKey(call.params))} ELSE {}
DictViews ==
  CASE call.path = "attached" ->
         {View(prepared.attached[call.params.min],
               [width |-> call.params.min, log |-> prepared.attachedLog])}
    [] call.path = "beside" -> {View(beside, MainKey(call.params))}
    [] call.path = "prefilled" -> InputViews
    [] OTHER -> {}
Views == InputViews \cup DictViews

TypeOK ==
  /\ level \in Levels
  /\ stored \in Dicts \cup {NoDict}
  /\ expected \in Nat
  /\ {main, long, beside, small, prepared.snapshot, prepared.snapshotLong} \subseteq Table
  /\ call \in Call \cup {Idle}
  /\ call.searching /\ call.path = "attached" =>
       call.params.min \in DOMAIN prepared.attached

(* Every hash of a search is a position of the table it is looked up in,   *)
(* and reaches all of it: indexing neither panics nor depends on what the  *)
(* context was used for before.                                            *)
TablesFit ==
  call.searching => \A v \in Views : v.table.log = v.key.log

(* A search sees positions of its own input and dictionary only, in the    *)
(* buffer it searches: no entry of another frame, abandoned ones included, *)
(* of another dictionary, or of another level.                             *)
OwnPositionsOnly ==
  call.searching =>
    \A v \in Views : \A e \in v.table.entries : e.of \in {Input, call.dict}

(* fast.rs: prefilled "like the match finder at min_match".  A search with *)
(* a dictionary that can be hashed finds it, in every table it looks in,   *)
(* hashed as it hashes: at levels where tables of one size are searched    *)
(* with one minimum match.  MCLevelsRaw is one where they are not.         *)
DictionaryFound ==
  call.searching /\ call.dict # NoDict =>
    /\ DictLen[call.dict] >= HashRead => DictViews # {}
    /\ \A v \in DictViews :
         /\ \A e \in v.table.entries : e.key = v.key
         /\ DictLen[call.dict] >= HashRead =>
              [of |-> call.dict, key |-> v.key] \in v.table.entries
=============================================================================
