--------------------------- MODULE ContextsProofs ---------------------------
(***************************************************************************)
(* A context's past is invisible to its next frame: for every set of       *)
(* levels, dictionaries and sizes, a search finds tables of its own size   *)
(* with nothing of another frame in them (SizesMatch, NothingLeftOver),    *)
(* and, on one condition on the levels, its dictionary in all of them      *)
(* (DictionaryServes).                                                     *)
(*                                                                         *)
(* What a call searches it sets up first, so all that has to be known of   *)
(* the past is that the prepared dictionary is the one the level asks for  *)
(* (PreparedInv).                                                          *)
(***************************************************************************)
EXTENDS Contexts, FiniteSetTheorems, TLAPS

PreparedInv ==
  prepared = IF stored = NoDict THEN Nothing ELSE Prepare(stored, level, expected)

(* Only the stored dictionary is attached, and only fast does so.          *)
AttachedInv ==
  call.searching /\ call.path = "attached" =>
    stored # NoDict /\ call.dict = stored /\ call.params.min \in DOMAIN prepared.attached

(* Searches of tables of one size hash the same number of bytes, but for   *)
(* the short inputs that fast keeps away from the snapshot.  L-7, L-3 to   *)
(* L-1 and L0 to L4 are such levels; L-6 to L-4 are not (MCLevelsRaw).     *)
OneWidthPerSize ==
  \A lev \in Levels : \A n, m \in Nat :
    LET p == ParamsForSize(lev, n)
        q == ParamsForSize(lev, m)
    IN  /\ lev.strategy = "dfast" \/ n > AttachThreshold
        /\ MainKey(p).log = MainKey(q).log
        => p.min = q.min

(* Levels that keep literals raw at every size, or at none, are such.      *)
LEMMA SteadyLevels ==
  ASSUME \A lev \in Levels : lev.rawLimit < 0
  PROVE  OneWidthPerSize
  BY ConstantsAssumption DEF OneWidthPerSize, ParamsForSize, Level

IInv ==
  /\ TypeOK /\ PreparedInv /\ AttachedInv
  /\ TablesFit /\ OwnPositionsOnly
  /\ OneWidthPerSize => DictionaryFound

(* A table as the search needs it, and as a dictionary's needs it.         *)
Clean(t, key, d) == t.log = key.log /\ \A e \in t.entries : e.of \in {Input, d}
Serves(t, key, d) ==
  /\ \A e \in t.entries : e.key = key
  /\ DictLen[d] >= HashRead => [of |-> d, key |-> key] \in t.entries

-----------------------------------------------------------------------------
(* Level parameters and tables.                                            *)

LEMMA SrcLogType ==
  ASSUME NEW n \in Nat
  PROVE  SrcLog(n) \in Nat
<1> DEFINE S == {k \in 0 .. n - 1 : 2 ^ k < n}
<1>1. IsFiniteSet(0 .. n - 1)
  BY FS_Interval
<1>2. IsFiniteSet(S)
  BY <1>1, FS_Subset
<1> QED
  BY <1>2, FS_CardinalityType DEF SrcLog

LEMMA SizedLogType ==
  ASSUME NEW log \in Nat, NEW n \in Nat
  PROVE  SizedLog(log, n) \in Nat
  BY SrcLogType, ConstantsAssumption DEF SizedLog, GreaterOf, LesserOf

LEMMA ParamsType ==
  ASSUME NEW lev \in Levels, NEW n \in Nat
  PROVE  ParamsForSize(lev, n) \in Params /\ ParamsForSize(lev, n).strategy = lev.strategy
<1>1. lev \in Level
  BY ConstantsAssumption
<1>2. SizedLog(lev.hash, n) \in Nat /\ SizedLog(lev.chain, n) \in Nat
  BY <1>1, SizedLogType DEF Level
<1> QED
  BY <1>1, <1>2 DEF ParamsForSize, Params, Level

LEMMA KeyTypes ==
  ASSUME NEW p \in Params
  PROVE  MainKey(p) \in Key /\ LongKey(p) \in Key
  BY DEF Params, MainKey, LongKey, Key

LEMMA ZeroedType ==
  ASSUME NEW log \in Nat \cup {Absent}
  PROVE  Zeroed(log) \in Table
  BY DEF Zeroed, Table

LEMMA ResizedType ==
  ASSUME NEW t \in Table, NEW log \in Nat
  PROVE  Resized(t, log) \in Table /\ Resized(t, log).log = log
  BY DEF Resized, Table

LEMMA ClearedIs ==
  ASSUME NEW t \in Table
  PROVE  Cleared(t) \in Table /\ Cleared(t).log = t.log /\ Cleared(t).entries = {}
  BY DEF Cleared, Zeroed, Table

LEMMA PrefilledIs ==
  ASSUME NEW t \in Table, NEW d \in Dicts, NEW readable \in Nat, NEW key \in Key
  PROVE  /\ Prefilled(t, d, readable, key) \in Table
         /\ Prefilled(t, d, readable, key).log = t.log
         /\ Prefilled(t, d, readable, key).entries = DictEntries(d, readable, key)
<1>1. DictEntries(d, readable, key) \subseteq Entry
  BY DEF DictEntries, Entry, Sources
<1>2. Prefilled(t, d, readable, key) = [log |-> t.log, entries |-> DictEntries(d, readable, key)]
  BY DEF Prefilled, Cleared, Zeroed
<1> QED
  BY <1>1, <1>2 DEF Table

LEMMA AgedType ==
  ASSUME NEW t \in Table
  PROVE  Aged(t) \in Table
<1>1. Stale \in Entry
  BY DEF Stale, Entry, Sources, Key
<1> QED
  BY <1>1 DEF Aged, Table

LEMMA WithIs ==
  ASSUME NEW t \in Table, NEW key \in Key
  PROVE  /\ With(t, key) \in Table /\ With(t, key).log = t.log
         /\ With(t, key).entries = t.entries \cup {[of |-> Input, key |-> key]}
<1>1. [of |-> Input, key |-> key] \in Entry
  BY DEF Entry, Sources
<1> QED
  BY <1>1 DEF With, Table

LEMMA DictEntriesOwn ==
  ASSUME NEW d, NEW readable, NEW key, NEW e \in DictEntries(d, readable, key)
  PROVE  e.of = d /\ e.key = key
  BY DEF DictEntries

LEMMA AttachedLogType ==
  ASSUME NEW d \in Dicts, NEW p \in Params
  PROVE  AttachedLog(d, p) \in Nat
<1>1. DictLen[d] \in Nat /\ p.hash \in Nat /\ MinLog \in Nat
  BY ConstantsAssumption DEF Params
<1>2. SrcLog(DictLen[d]) \in Nat
  BY <1>1, SrcLogType
<1> QED
  BY <1>1, <1>2 DEF AttachedLog, GreaterOf, LesserOf

LEMMA FreshPrefilled ==
  ASSUME NEW log \in Nat, NEW d \in Dicts, NEW key \in Key
  PROVE  /\ Prefilled(Zeroed(log), d, DictLen[d], key) \in Table
         /\ Prefilled(Zeroed(log), d, DictLen[d], key).log = log
         /\ Prefilled(Zeroed(log), d, DictLen[d], key).entries = DictEntries(d, DictLen[d], key)
<1>1. DictLen[d] \in Nat
  BY ConstantsAssumption
<1>2. Zeroed(log) \in Table /\ Zeroed(log).log = log
  BY ZeroedType DEF Zeroed
<1> QED
  BY <1>1, <1>2, PrefilledIs

LEMMA AttachedIs ==
  ASSUME NEW d \in Dicts, NEW width \in Nat, NEW log \in Nat
  PROVE  /\ AttachedTable(d, width, log).log = log
         /\ AttachedTable(d, width, log).entries =
              DictEntries(d, DictLen[d], [width |-> width, log |-> log])
<1>1. [width |-> width, log |-> log] \in Key
  BY DEF Key
<1> QED
  BY <1>1, FreshPrefilled DEF AttachedTable

-----------------------------------------------------------------------------
(* The prepared dictionary.                                                *)
LEMMA PrepareIs ==
  ASSUME NEW d \in Dicts, NEW lev \in Levels, NEW size \in Nat
  PROVE  LET r == Prepare(d, lev, size)
             p == ParamsForSize(lev, DictLen[d] + size)
         IN  /\ p \in Params
             /\ r.snapshot \in Table /\ r.snapshotLong \in Table
             /\ r.snapshot.log = MainKey(p).log
             /\ r.snapshot.entries = DictEntries(d, DictLen[d], MainKey(p))
             /\ lev.strategy = "dfast" =>
                  /\ r.snapshotLong.log = p.hash /\ r.snapshotLong # NoTable
                  /\ r.snapshotLong.entries = DictEntries(d, DictLen[d], LongKey(p))
             /\ r.attachedLog \in Nat
             /\ \A w \in DOMAIN r.attached :
                  /\ w \in Nat
                  /\ r.attached[w].log = r.attachedLog
                  /\ r.attached[w].entries =
                       DictEntries(d, DictLen[d], [width |-> w, log |-> r.attachedLog])
<1> DEFINE r == Prepare(d, lev, size)
           p == ParamsForSize(lev, DictLen[d] + size)
           log == AttachedLog(d, p)
<1>1. DictLen[d] \in Nat /\ DictLen[d] + size \in Nat
  BY ConstantsAssumption
<1>2. p \in Params /\ p.strategy = lev.strategy
  BY <1>1, ParamsType
<1>3. p.hash \in Nat /\ MainKey(p).log \in Nat /\ MainKey(p) \in Key /\ LongKey(p) \in Key
  BY <1>2, KeyTypes DEF Params, Key
<1>4. log \in Nat
  BY <1>2, AttachedLogType
<1>5. r.snapshot = Prefilled(Zeroed(MainKey(p).log), d, DictLen[d], MainKey(p))
      /\ r.snapshotLong = (IF p.strategy = "dfast"
                           THEN Prefilled(Zeroed(p.hash), d, DictLen[d], LongKey(p)) ELSE NoTable)
      /\ r.attached = [w \in AttachedWidths(lev, d) |-> AttachedTable(d, w, log)]
      /\ r.attachedLog = log
  BY DEF Prepare
<1> HIDE DEF r, p, log
<1>6. NoTable \in Table
  BY ZeroedType DEF NoTable
<1>7. /\ r.snapshot \in Table /\ r.snapshot.log = MainKey(p).log
      /\ r.snapshot.entries = DictEntries(d, DictLen[d], MainKey(p))
  BY <1>3, <1>5, FreshPrefilled
<1>8. ASSUME lev.strategy = "dfast"
      PROVE  /\ r.snapshotLong \in Table /\ r.snapshotLong.log = p.hash
             /\ r.snapshotLong # NoTable
             /\ r.snapshotLong.entries = DictEntries(d, DictLen[d], LongKey(p))
  <2>1. r.snapshotLong = Prefilled(Zeroed(p.hash), d, DictLen[d], LongKey(p))
    BY <1>2, <1>5, <1>8
  <2>2. /\ r.snapshotLong \in Table /\ r.snapshotLong.log = p.hash
        /\ r.snapshotLong.entries = DictEntries(d, DictLen[d], LongKey(p))
    BY <1>3, <2>1, FreshPrefilled
  <2>3. r.snapshotLong # NoTable
    BY <1>3, <2>2 DEF NoTable, Zeroed, Absent
  <2> QED
    BY <2>2, <2>3
<1>9. r.snapshotLong \in Table
  BY <1>2, <1>5, <1>6, <1>8
<1>10. ASSUME NEW w \in DOMAIN r.attached
       PROVE  /\ w \in Nat
              /\ r.attached[w].log = log
              /\ r.attached[w].entries = DictEntries(d, DictLen[d], [width |-> w, log |-> log])
  <2>1. w \in AttachedWidths(lev, d) /\ r.attached[w] = AttachedTable(d, w, log)
    BY <1>5
  <2>2. \A n \in {1, AttachThreshold, MaxBlock} : n \in Nat
    BY ConstantsAssumption
  <2>3. ASSUME NEW n \in {1, AttachThreshold, MaxBlock}
        PROVE  ParamsForSize(lev, DictLen[d] + n).min \in Nat
    <3>1. DictLen[d] + n \in Nat
      BY <1>1, <2>2
    <3> QED
      BY <3>1, ParamsType DEF Params
  <2>4. w \in Nat
    BY <2>1, <2>3 DEF AttachedWidths
  <2> QED
    BY <1>4, <2>1, <2>4, AttachedIs
<1>11. /\ p \in Params
       /\ r.snapshot \in Table /\ r.snapshotLong \in Table
       /\ r.snapshot.log = MainKey(p).log
       /\ r.snapshot.entries = DictEntries(d, DictLen[d], MainKey(p))
       /\ lev.strategy = "dfast" =>
            /\ r.snapshotLong.log = p.hash /\ r.snapshotLong # NoTable
            /\ r.snapshotLong.entries = DictEntries(d, DictLen[d], LongKey(p))
       /\ r.attachedLog \in Nat
       /\ \A w \in DOMAIN r.attached :
            /\ w \in Nat
            /\ r.attached[w].log = r.attachedLog
            /\ r.attached[w].entries =
                 DictEntries(d, DictLen[d], [width |-> w, log |-> r.attachedLog])
  BY <1>2, <1>4, <1>5, <1>7, <1>8, <1>9, <1>10
<1> QED
  BY <1>11 DEF r, p

-----------------------------------------------------------------------------
(* Between calls.                                                          *)
LEMMA IdleIInv ==
  ASSUME PreparedInv', call' = Idle,
         level' \in Levels, stored' \in Dicts \cup {NoDict}, expected' \in Nat,
         {main', long', beside', small', prepared'.snapshot, prepared'.snapshotLong} \subseteq Table
  PROVE  IInv'
  BY DEF IInv, TypeOK, AttachedInv, TablesFit, OwnPositionsOnly, DictionaryFound, Idle

LEMMA BlocksType ==
  ASSUME NEW n \in Nat
  PROVE  BlocksOf(n) \in Nat
  BY ConstantsAssumption DEF BlocksOf

(* A call that has set its tables up.                                      *)
LEMMA StartIInv ==
  ASSUME TypeOK, PreparedInv, UNCHANGED ownVars,
         NEW path \in Paths, NEW p \in Params, NEW log \in Nat,
         NEW d \in Dicts \cup {NoDict}, NEW n \in Nat, NEW fallible \in BOOLEAN,
         Search(path, p, log, d, n, fallible),
         {main', long', beside', small'} \subseteq Table,
         path # "attached" =>
           /\ Clean(main', MainKey(p), d)
           /\ p.strategy = "dfast" => Clean(long', LongKey(p), d),
         path = "beside" => Clean(beside', MainKey(p), d),
         path = "attached" =>
           /\ stored # NoDict /\ d = stored /\ p.min \in DOMAIN prepared.attached
           /\ Clean(small', [width |-> p.min, log |-> log], d)
           /\ Clean(prepared.attached[p.min],
                    [width |-> p.min, log |-> prepared.attachedLog], d),
         OneWidthPerSize /\ d # NoDict =>
           /\ path = "plain" => ~(DictLen[d] >= HashRead)
           /\ path = "prefilled" =>
                /\ Serves(main', MainKey(p), d)
                /\ p.strategy = "dfast" => Serves(long', LongKey(p), d)
           /\ path = "beside" => Serves(beside', MainKey(p), d)
           /\ path = "attached" =>
                Serves(prepared.attached[p.min],
                       [width |-> p.min, log |-> prepared.attachedLog], d)
  PROVE  IInv'
<1>1. call' = [searching |-> TRUE, path |-> path, params |-> p, inputLog |-> log,
               dict |-> d, blocks |-> BlocksOf(n), fallible |-> fallible]
  BY DEF Search
<1>2. call'.searching /\ call'.path = path /\ call'.params = p /\ call'.inputLog = log
      /\ call'.dict = d
  BY <1>1
<1>3. call' \in Call
  BY <1>1, BlocksType DEF Call
<1>4. level' = level /\ stored' = stored /\ expected' = expected /\ prepared' = prepared
  BY DEF ownVars
<1>5. AttachedInv' /\ PreparedInv'
  BY <1>2, <1>4 DEF AttachedInv, PreparedInv
<1>6. TypeOK'
  BY <1>2, <1>3, <1>4 DEF TypeOK
<1>7. TablesFit' /\ OwnPositionsOnly'
  <2> SUFFICES ASSUME NEW v \in Views'
               PROVE  v.table.log = v.key.log /\ \A e \in v.table.entries : e.of \in {Input, d}
    BY <1>2 DEF TablesFit, OwnPositionsOnly
  <2>1. CASE path = "attached"
    <3>1. v = View(small', [width |-> p.min, log |-> log])
          \/ v = View(prepared.attached[p.min], [width |-> p.min, log |-> prepared.attachedLog])
      BY <1>2, <1>4, <2>1 DEF Views, InputViews, DictViews, InputKey
    <3> QED
      BY <2>1, <3>1 DEF View, Clean
  <2>2. CASE path # "attached"
    <3>1. \/ v = View(main', MainKey(p))
          \/ p.strategy = "dfast" /\ v = View(long', LongKey(p))
          \/ path = "beside" /\ v = View(beside', MainKey(p))
      BY <1>2, <2>2 DEF Views, InputViews, DictViews, InputKey, Paths
    <3> QED
      BY <2>2, <3>1 DEF View, Clean
  <2> QED
    BY <2>1, <2>2
<1>8. ASSUME OneWidthPerSize
      PROVE  DictionaryFound'
  <2> SUFFICES ASSUME d # NoDict
               PROVE  /\ DictLen[d] >= HashRead => DictViews' # {}
                      /\ \A v \in DictViews' : Serves(v.table, v.key, d)
    BY <1>2 DEF DictionaryFound, Serves
  <2>1. CASE path = "attached"
    <3>1. DictViews' = {View(prepared.attached[p.min],
                             [width |-> p.min, log |-> prepared.attachedLog])}
      BY <1>2, <1>4, <2>1 DEF DictViews
    <3>2. Serves(prepared.attached[p.min], [width |-> p.min, log |-> prepared.attachedLog], d)
      BY <1>8, <2>1
    <3> QED
      BY <3>1, <3>2 DEF View
  <2>2. CASE path = "beside"
    <3>1. DictViews' = {View(beside', MainKey(p))}
      BY <1>2, <2>2 DEF DictViews
    <3>2. Serves(beside', MainKey(p), d)
      BY <1>8, <2>2
    <3> QED
      BY <3>1, <3>2 DEF View
  <2>3. CASE path = "prefilled"
    <3>1. DictViews' = {View(main', MainKey(p))} \cup
                       IF p.strategy = "dfast" THEN {View(long', LongKey(p))} ELSE {}
      BY <1>2, <2>3 DEF DictViews, InputViews, InputKey
    <3>2. Serves(main', MainKey(p), d) /\ (p.strategy = "dfast" => Serves(long', LongKey(p), d))
      BY <1>8, <2>3
    <3>3. View(main', MainKey(p)) \in DictViews'
      BY <3>1
    <3>4. ASSUME NEW v \in DictViews'
          PROVE  Serves(v.table, v.key, d)
      <4>1. v = View(main', MainKey(p)) \/ (p.strategy = "dfast" /\ v = View(long', LongKey(p)))
        BY <3>1
      <4>2. CASE v = View(main', MainKey(p))
        BY <3>2, <4>2 DEF View
      <4>3. CASE p.strategy = "dfast" /\ v = View(long', LongKey(p))
        BY <3>2, <4>3 DEF View
      <4> QED
        BY <4>1, <4>2, <4>3
    <3> QED
      BY <3>3, <3>4
  <2>4. CASE path = "plain"
    BY <1>2, <1>8, <2>4 DEF DictViews
  <2> QED
    BY <2>1, <2>2, <2>3, <2>4 DEF Paths
<1> QED
  BY <1>5, <1>6, <1>7, <1>8 DEF IInv

-----------------------------------------------------------------------------
(* What the paths of a call set up.                                        *)
LEMMA PrefilledServes ==
  ASSUME NEW t \in Table, NEW d \in Dicts, NEW readable \in Nat, NEW key \in Key,
         t.log = key.log, readable >= DictLen[d]
  PROVE  /\ Prefilled(t, d, readable, key) \in Table
         /\ Clean(Prefilled(t, d, readable, key), key, d)
         /\ Serves(Prefilled(t, d, readable, key), key, d)
<1> DEFINE r == Prefilled(t, d, readable, key)
<1>1. r \in Table /\ r.log = key.log /\ r.entries = DictEntries(d, readable, key)
  BY PrefilledIs
<1> HIDE DEF r
<1>2. \A e \in r.entries : e.of = d /\ e.key = key
  BY <1>1, DictEntriesOwn
<1>3. DictLen[d] >= HashRead => [of |-> d, key |-> key] \in r.entries
  BY <1>1, ConstantsAssumption DEF DictEntries
<1>4. Clean(r, key, d) /\ Serves(r, key, d)
  BY <1>1, <1>2, <1>3 DEF Clean, Serves
<1> QED
  BY <1>1, <1>4 DEF r

LEMMA ClearedClean ==
  ASSUME NEW t \in Table, NEW log \in Nat, NEW key \in Key, key.log = log, NEW d
  PROVE  Cleared(Resized(t, log)) \in Table /\ Clean(Cleared(Resized(t, log)), key, d)
<1>1. Resized(t, log) \in Table /\ Resized(t, log).log = log
  BY ResizedType
<1> QED
  BY <1>1, ClearedIs DEF Clean

LEMMA IdleCall ==
  ASSUME TypeOK, ~call.searching
  PROVE  call = Idle
  BY DEF TypeOK, Call

LEMMA CoreIInv ==
  ASSUME TypeOK, PreparedInv, ~call.searching, UNCHANGED ownVars,
         NEW p \in Params, NEW d \in Dicts \cup {NoDict}, NEW n \in Nat,
         NEW fallible \in BOOLEAN, Core(p, d, n, fallible)
  PROVE  IInv'
<1>1. level' = level /\ stored' = stored /\ expected' = expected /\ prepared' = prepared
  BY DEF ownVars
<1>2. /\ main \in Table /\ long \in Table /\ beside \in Table /\ small \in Table
      /\ prepared.snapshot \in Table /\ prepared.snapshotLong \in Table
      /\ level \in Levels /\ stored \in Dicts \cup {NoDict} /\ expected \in Nat
  BY DEF TypeOK
<1>3. p.hash \in Nat /\ p.chain \in Nat /\ MainKey(p) \in Key /\ LongKey(p) \in Key
  BY KeyTypes DEF Params
<1>4. PreparedInv'
  BY <1>1 DEF PreparedInv
<1>5. HasContent(d) => d \in Dicts /\ DictLen[d] \in Nat /\ DictLen[d] + n \in Nat
                       /\ DictLen[d] + n >= DictLen[d]
  BY ConstantsAssumption DEF HasContent
<1>6. ~HasContent(d) /\ d # NoDict => ~(DictLen[d] >= HashRead)
  BY ConstantsAssumption DEF HasContent
<1>7. CASE n = 0 /\ EmptyFrame /\ UNCHANGED << main, long, beside, small >>
  <2>1. call' = Idle
    BY <1>7, IdleCall DEF EmptyFrame
  <2> QED
    BY <1>1, <1>2, <1>4, <1>7, <2>1, IdleIInv
<1>8. CASE n > 0 /\ p.strategy = "fast" /\ CoreFast(p, d, n, fallible)
  <2> DEFINE sized == Resized(main, p.hash)
  <2>1. MainKey(p).log = p.hash
    BY <1>8 DEF MainKey
  <2>2. /\ sized \in Table /\ sized.log = p.hash
        /\ Resized(beside, p.hash) \in Table /\ Resized(beside, p.hash).log = p.hash
    BY <1>2, <1>3, ResizedType
  <2>3. Cleared(sized) \in Table /\ Clean(Cleared(sized), MainKey(p), d)
    BY <1>2, <1>3, <2>1, ClearedClean
  <2>4. CASE /\ HasContent(d)
             /\ beside' = Prefilled(Resized(beside, p.hash), d, DictLen[d] + n, MainKey(p))
             /\ main' = Cleared(sized)
             /\ Search("beside", p, p.hash, d, n, fallible)
             /\ UNCHANGED << long, small >>
    <3> HIDE DEF sized
    <3>1. beside' \in Table /\ Clean(beside', MainKey(p), d) /\ Serves(beside', MainKey(p), d)
      BY <1>3, <1>5, <2>1, <2>2, <2>4, PrefilledServes
    <3>2. {main', long', beside', small'} \subseteq Table /\ Clean(main', MainKey(p), d)
      BY <1>2, <2>3, <2>4, <3>1
    <3>3. "beside" \in Paths
      BY DEF Paths
    <3> QED
      BY <1>3, <1>8, <2>4, <3>1, <3>2, <3>3, StartIInv
  <2>5. CASE /\ HasContent(d)
             /\ main' = Prefilled(sized, d, DictLen[d] + n, MainKey(p))
             /\ Search("prefilled", p, p.hash, d, n, fallible)
             /\ UNCHANGED << long, beside, small >>
    <3> HIDE DEF sized
    <3>1. main' \in Table /\ Clean(main', MainKey(p), d) /\ Serves(main', MainKey(p), d)
      BY <1>3, <1>5, <2>1, <2>2, <2>5, PrefilledServes
    <3>2. {main', long', beside', small'} \subseteq Table
      BY <1>2, <2>5, <3>1
    <3>3. "prefilled" \in Paths
      BY DEF Paths
    <3> QED
      BY <1>3, <1>8, <2>5, <3>1, <3>2, <3>3, StartIInv
  <2>6. CASE /\ ~HasContent(d)
             /\ main' = Cleared(sized)
             /\ Search("plain", p, p.hash, d, n, fallible)
             /\ UNCHANGED << long, beside, small >>
    <3> HIDE DEF sized
    <3>1. {main', long', beside', small'} \subseteq Table /\ Clean(main', MainKey(p), d)
      BY <1>2, <2>3, <2>6
    <3>2. "plain" \in Paths
      BY DEF Paths
    <3> QED
      BY <1>3, <1>6, <1>8, <2>6, <3>1, <3>2, StartIInv
  <2> QED
    BY <1>8, <2>4, <2>5, <2>6 DEF CoreFast
<1>9. CASE n > 0 /\ p.strategy = "dfast" /\ CoreDfast(p, d, n, fallible)
  <2> DEFINE sized == Resized(main, p.chain)
             sizedLong == Resized(long, p.hash)
  <2>1. MainKey(p).log = p.chain /\ LongKey(p).log = p.hash
    BY <1>9 DEF MainKey, LongKey
  <2>2. /\ sized \in Table /\ sized.log = p.chain
        /\ sizedLong \in Table /\ sizedLong.log = p.hash
    BY <1>2, <1>3, ResizedType
  <2>3. /\ Cleared(sized) \in Table /\ Clean(Cleared(sized), MainKey(p), d)
        /\ Cleared(sizedLong) \in Table /\ Clean(Cleared(sizedLong), LongKey(p), d)
    BY <1>2, <1>3, <2>1, ClearedClean
  <2>4. beside' = beside /\ small' = small
    BY <1>9 DEF CoreDfast
  <2>5. CASE /\ HasContent(d)
             /\ main' = Prefilled(sized, d, DictLen[d], MainKey(p))
             /\ long' = Prefilled(sizedLong, d, DictLen[d], LongKey(p))
             /\ Search("prefilled", p, p.chain, d, n, fallible)
    <3> HIDE DEF sized, sizedLong
    <3>1. DictLen[d] >= DictLen[d]
      BY <1>5, <2>5
    <3>2. /\ main' \in Table /\ Clean(main', MainKey(p), d) /\ Serves(main', MainKey(p), d)
          /\ long' \in Table /\ Clean(long', LongKey(p), d) /\ Serves(long', LongKey(p), d)
      BY <1>3, <1>5, <2>1, <2>2, <2>5, <3>1, PrefilledServes
    <3>3. {main', long', beside', small'} \subseteq Table
      BY <1>2, <2>4, <3>2
    <3>4. "prefilled" \in Paths
      BY DEF Paths
    <3> QED
      BY <1>3, <2>5, <3>2, <3>3, <3>4, StartIInv
  <2>6. CASE /\ ~HasContent(d)
             /\ main' = Cleared(sized)
             /\ long' = Cleared(sizedLong)
             /\ Search("plain", p, p.chain, d, n, fallible)
    <3> HIDE DEF sized, sizedLong
    <3>1. /\ {main', long', beside', small'} \subseteq Table
          /\ Clean(main', MainKey(p), d) /\ Clean(long', LongKey(p), d)
      BY <1>2, <2>3, <2>4, <2>6
    <3>2. "plain" \in Paths
      BY DEF Paths
    <3> QED
      BY <1>3, <1>6, <2>6, <3>1, <3>2, StartIInv
  <2> QED
    BY <1>9, <2>5, <2>6 DEF CoreDfast
<1> QED
  BY <1>7, <1>8, <1>9 DEF Core

(* The prepared dictionary, as the paths that use it know it.              *)
LEMMA StoredIs ==
  ASSUME TypeOK, PreparedInv, stored # NoDict
  PROVE  LET q == ParamsForSize(level, DictLen[stored] + expected)
         IN  /\ stored \in Dicts /\ q \in Params /\ q.strategy = level.strategy
             /\ Clean(prepared.snapshot, MainKey(q), stored)
             /\ Serves(prepared.snapshot, MainKey(q), stored)
             /\ level.strategy = "dfast" =>
                  /\ prepared.snapshotLong.log = q.hash /\ prepared.snapshotLong # NoTable
                  /\ Clean(prepared.snapshotLong, LongKey(q), stored)
                  /\ Serves(prepared.snapshotLong, LongKey(q), stored)
             /\ \A w \in DOMAIN prepared.attached :
                  LET key == [width |-> w, log |-> prepared.attachedLog]
                  IN  /\ Clean(prepared.attached[w], key, stored)
                      /\ Serves(prepared.attached[w], key, stored)
<1> DEFINE d == stored
           q == ParamsForSize(level, DictLen[d] + expected)
<1>1. d \in Dicts /\ level \in Levels /\ expected \in Nat
  BY DEF TypeOK
<1>2. prepared = Prepare(d, level, expected)
  BY DEF PreparedInv
<1>3. DictLen[d] \in Nat /\ DictLen[d] + expected \in Nat /\ HashRead \in Nat \ {0}
  BY <1>1, ConstantsAssumption
<1>4. q \in Params /\ q.strategy = level.strategy
  BY <1>1, <1>3, ParamsType
<1>5. /\ prepared.snapshot.log = MainKey(q).log
      /\ prepared.snapshot.entries = DictEntries(d, DictLen[d], MainKey(q))
      /\ level.strategy = "dfast" =>
           /\ prepared.snapshotLong.log = q.hash /\ prepared.snapshotLong # NoTable
           /\ prepared.snapshotLong.entries = DictEntries(d, DictLen[d], LongKey(q))
      /\ \A w \in DOMAIN prepared.attached :
           /\ prepared.attached[w].log = prepared.attachedLog
           /\ prepared.attached[w].entries =
                DictEntries(d, DictLen[d], [width |-> w, log |-> prepared.attachedLog])
  BY <1>1, <1>2, PrepareIs
<1>6. LongKey(q).log = q.hash
  BY DEF LongKey
<1>7. ASSUME NEW t, NEW key, t.log = key.log, t.entries = DictEntries(d, DictLen[d], key)
      PROVE  Clean(t, key, d) /\ Serves(t, key, d)
  <2>1. \A e \in t.entries : e.of = d /\ e.key = key
    BY <1>7, DictEntriesOwn
  <2>2. DictLen[d] >= HashRead => [of |-> d, key |-> key] \in t.entries
    BY <1>3, <1>7 DEF DictEntries
  <2> QED
    BY <1>7, <2>1, <2>2 DEF Clean, Serves
<1> HIDE DEF q
<1>8. /\ Clean(prepared.snapshot, MainKey(q), d)
      /\ Serves(prepared.snapshot, MainKey(q), d)
  BY <1>5, <1>7
<1>9. level.strategy = "dfast" =>
        /\ Clean(prepared.snapshotLong, LongKey(q), d)
        /\ Serves(prepared.snapshotLong, LongKey(q), d)
  BY <1>5, <1>6, <1>7
<1>10. ASSUME NEW w \in DOMAIN prepared.attached
       PROVE  LET key == [width |-> w, log |-> prepared.attachedLog]
              IN  /\ Clean(prepared.attached[w], key, d)
                  /\ Serves(prepared.attached[w], key, d)
  <2> DEFINE key == [width |-> w, log |-> prepared.attachedLog]
  <2>1. key.log = prepared.attachedLog
    OBVIOUS
  <2>2. prepared.attached[w].log = key.log
        /\ prepared.attached[w].entries = DictEntries(d, DictLen[d], key)
    BY <1>5, <2>1
  <2> HIDE DEF key
  <2>3. Clean(prepared.attached[w], key, d) /\ Serves(prepared.attached[w], key, d)
    BY <1>7, <2>2
  <2> QED
    BY <2>3 DEF key
<1> QED
  BY <1>1, <1>4, <1>5, <1>8, <1>9, <1>10 DEF q

LEMMA AttachIInv ==
  ASSUME IInv, ~call.searching, UNCHANGED ownVars, stored # NoDict,
         NEW p \in Params, NEW n \in Nat, NEW fallible \in BOOLEAN,
         Attach(p, n, fallible)
  PROVE  IInv'
<1> DEFINE log == InputLog(p, n)
           key == [width |-> p.min, log |-> log]
<1>1. TypeOK /\ PreparedInv
  BY DEF IInv
<1>2. /\ main \in Table /\ long \in Table /\ beside \in Table /\ small \in Table
      /\ stored \in Dicts \cup {NoDict}
  BY <1>1 DEF TypeOK
<1>3. log \in Nat
  BY SrcLogType, ConstantsAssumption DEF InputLog, GreaterOf, LesserOf, Params
<1>4. /\ p.min \in DOMAIN prepared.attached
      /\ small' = Cleared(Resized(small, log))
      /\ Search("attached", p, log, stored, n, fallible)
      /\ main' = main /\ long' = long /\ beside' = beside
  BY DEF Attach, UseAttached
<1>5. key \in Key /\ key.log = log
  BY <1>3 DEF Key, Params
<1> HIDE DEF log, key
<1>6. small' \in Table /\ Clean(small', key, stored)
  BY <1>2, <1>3, <1>4, <1>5, ClearedClean
<1>7. /\ Clean(prepared.attached[p.min], [width |-> p.min, log |-> prepared.attachedLog], stored)
      /\ Serves(prepared.attached[p.min], [width |-> p.min, log |-> prepared.attachedLog], stored)
  BY <1>1, <1>4, StoredIs
<1>8. {main', long', beside', small'} \subseteq Table
  BY <1>2, <1>4, <1>6
<1>9. "attached" \in Paths
  BY DEF Paths
<1> QED
  BY <1>1, <1>2, <1>3, <1>4, <1>6, <1>7, <1>8, <1>9, StartIInv DEF key

(* Each width of an input that is kept away from the snapshot has a table. *)
LEMMA ShortAttached ==
  ASSUME NEW d \in Dicts, NEW lev \in Levels, lev.strategy = "fast",
         NEW n \in 1 .. AttachThreshold
  PROVE  ParamsForSize(lev, n + DictLen[d]).min \in AttachedWidths(lev, d)
<1> DEFINE width(m) == ParamsForSize(lev, DictLen[d] + m).min
<1>1. /\ DictLen[d] \in Nat /\ lev.rawLimit \in Int /\ AttachThreshold \in Nat
      /\ n + DictLen[d] = DictLen[d] + n
  BY ConstantsAssumption DEF Level
<1>2. \A m : width(m) = IF DictLen[d] + m <= lev.rawLimit THEN lev.smallMin ELSE lev.min
  BY DEF ParamsForSize
<1>3. AttachedWidths(lev, d) = {width(m) : m \in {1, AttachThreshold, MaxBlock}}
  BY DEF AttachedWidths
<1>4. ParamsForSize(lev, n + DictLen[d]).min = width(n)
  BY <1>1
<1> HIDE DEF width
<1>5. CASE DictLen[d] + n <= lev.rawLimit
  <2>1. width(n) = width(1)
    BY <1>1, <1>2, <1>5
  <2> QED
    BY <1>3, <1>4, <2>1
<1>6. CASE ~(DictLen[d] + n <= lev.rawLimit)
  <2>1. width(n) = width(AttachThreshold)
    BY <1>1, <1>2, <1>6
  <2> QED
    BY <1>3, <1>4, <2>1
<1> QED
  BY <1>5, <1>6

LEMMA LargeRestored ==
  ASSUME IInv, stored # NoDict, NEW n \in Nat \ {0}, NEW fallible \in BOOLEAN,
         Restore(ParamsForSize(level, n + DictLen[stored]), n, fallible)
  PROVE  level.strategy = "dfast" \/ n + DictLen[stored] > AttachThreshold
<1> DEFINE p == ParamsForSize(level, n + DictLen[stored])
<1>1. /\ stored \in Dicts /\ level \in Levels
      /\ prepared = Prepare(stored, level, expected)
  BY DEF IInv, TypeOK, PreparedInv
<1>2. /\ DictLen[stored] \in Nat /\ AttachThreshold \in Nat
      /\ AttachThreshold <= MaxBlock /\ MaxBlock \in Nat
      /\ level.strategy \in Strategies
  BY <1>1, ConstantsAssumption DEF Level
<1>3. DOMAIN prepared.attached = AttachedWidths(level, stored)
  BY <1>1 DEF Prepare
<1>4. p.strategy = level.strategy
  BY DEF ParamsForSize
<1>5. ~UseAttached(p, n)
  BY DEF Restore
<1> SUFFICES ASSUME level.strategy = "fast", n <= AttachThreshold
             PROVE  FALSE
  BY <1>2 DEF Strategies
<1>6. n \in 1 .. AttachThreshold /\ n \in 1 .. MaxBlock
  BY <1>2
<1>7. p.min \in DOMAIN prepared.attached
  BY <1>1, <1>3, <1>6, ShortAttached
<1> HIDE DEF p
<1> QED
  BY <1>4, <1>5, <1>6, <1>7 DEF UseAttached

LEMMA RestoreIInv ==
  ASSUME IInv, ~call.searching, UNCHANGED ownVars, stored # NoDict,
         NEW n \in Nat, NEW fallible \in BOOLEAN,
         Restore(ParamsForSize(level, n + DictLen[stored]), n, fallible)
  PROVE  IInv'
<1> DEFINE m == n + DictLen[stored]
           p == ParamsForSize(level, m)
           k == DictLen[stored] + expected
           q == ParamsForSize(level, k)
<1>1. TypeOK /\ PreparedInv
  BY DEF IInv
<1>2. /\ main \in Table /\ long \in Table /\ beside \in Table /\ small \in Table
      /\ prepared.snapshot \in Table /\ prepared.snapshotLong \in Table
      /\ level \in Levels /\ stored \in Dicts /\ expected \in Nat
  BY <1>1 DEF TypeOK
<1>3. DictLen[stored] \in Nat /\ m \in Nat /\ k \in Nat
  BY <1>2, ConstantsAssumption
<1>4. p \in Params /\ p.strategy = level.strategy
  BY <1>2, <1>3, ParamsType
<1>5. /\ q \in Params /\ q.strategy = level.strategy
      /\ Clean(prepared.snapshot, MainKey(q), stored)
      /\ Serves(prepared.snapshot, MainKey(q), stored)
      /\ level.strategy = "dfast" =>
           /\ prepared.snapshotLong.log = q.hash /\ prepared.snapshotLong # NoTable
           /\ Clean(prepared.snapshotLong, LongKey(q), stored)
           /\ Serves(prepared.snapshotLong, LongKey(q), stored)
  BY <1>1, StoredIs
<1>6. level' = level /\ stored' = stored /\ expected' = expected /\ prepared' = prepared
  BY DEF ownVars
<1>7. /\ prepared.snapshot.log = MainKey(p).log
      /\ p.strategy = "dfast" => prepared.snapshotLong.log = p.hash
      /\ main' = prepared.snapshot
      /\ long' = IF prepared.snapshotLong # NoTable THEN prepared.snapshotLong ELSE long
      /\ IF n = 0 THEN EmptyFrame
                  ELSE Search("prefilled", p, MainKey(p).log, stored, n, fallible)
      /\ beside' = beside /\ small' = small
  BY DEF Restore, SnapshotMatches
<1>8. OneWidthPerSize /\ n # 0 => (MainKey(p).log = MainKey(q).log => p.min = q.min)
  <2>1. n # 0 => level.strategy = "dfast" \/ m > AttachThreshold
    BY <1>2, <1>3, LargeRestored
  <2> QED
    BY <1>2, <1>3, <2>1 DEF OneWidthPerSize
<1> HIDE DEF p, q, k, m
<1>9. {main', long', beside', small'} \subseteq Table
  BY <1>2, <1>7
<1>10. MainKey(p).log = MainKey(q).log
  BY <1>5, <1>7 DEF Clean
<1>11. CASE n = 0
  <2>1. call' = Idle
    BY <1>1, <1>7, <1>11, IdleCall DEF EmptyFrame
  <2>2. PreparedInv'
    BY <1>1, <1>6 DEF PreparedInv
  <2> QED
    BY <1>2, <1>6, <1>9, <2>1, <2>2, IdleIInv
<1>12. CASE n # 0
  <2>1. Clean(main', MainKey(p), stored)
    BY <1>5, <1>7, <1>10 DEF Clean
  <2>2. OneWidthPerSize => MainKey(p) = MainKey(q)
    BY <1>4, <1>5, <1>8, <1>10, <1>12 DEF MainKey
  <2>3. OneWidthPerSize => Serves(main', MainKey(p), stored)
    BY <1>5, <1>7, <2>2
  <2>4. ASSUME p.strategy = "dfast"
        PROVE  Clean(long', LongKey(p), stored) /\ Serves(long', LongKey(p), stored)
    <3>1. LongKey(p) = LongKey(q)
      BY <1>4, <1>5, <1>7, <2>4 DEF LongKey
    <3>2. long' = prepared.snapshotLong
      BY <1>4, <1>5, <1>7, <2>4
    <3> QED
      BY <1>4, <1>5, <2>4, <3>1, <3>2
  <2>5. "prefilled" \in Paths /\ MainKey(p).log \in Nat
    BY <1>4, KeyTypes DEF Paths, Key
  <2>6. Search("prefilled", p, MainKey(p).log, stored, n, fallible)
    BY <1>7, <1>12
  <2> QED
    BY <1>1, <1>2, <1>4, <1>9, <2>1, <2>3, <2>4, <2>5, <2>6, StartIInv
<1> QED
  BY <1>11, <1>12

LEMMA CompressIInv ==
  ASSUME IInv, NEW n \in InputLens, NEW fallible \in BOOLEAN, Compress(n, fallible)
  PROVE  IInv'
<1> DEFINE m == n + IF stored = NoDict THEN 0 ELSE DictLen[stored]
           p == ParamsForSize(level, m)
<1>1. TypeOK /\ PreparedInv /\ level \in Levels /\ stored \in Dicts \cup {NoDict}
  BY DEF IInv, TypeOK
<1>2. n \in Nat /\ m \in Nat
  BY <1>1, ConstantsAssumption
<1>3. p \in Params
  BY <1>1, <1>2, ParamsType
<1>4. /\ ~call.searching /\ UNCHANGED ownVars
      /\ \/ stored = NoDict /\ Core(p, NoDict, n, fallible)
         \/ /\ stored # NoDict
            /\ Attach(p, n, fallible) \/ Restore(p, n, fallible) \/ Fallback(p, n, fallible)
  BY DEF Compress
<1>5. CASE stored = NoDict /\ Core(p, NoDict, n, fallible)
  <2> HIDE DEF p, m
  <2> QED
    BY <1>1, <1>2, <1>3, <1>4, <1>5, CoreIInv
<1>6. CASE stored # NoDict /\ Attach(p, n, fallible)
  <2> HIDE DEF p, m
  <2> QED
    BY <1>2, <1>3, <1>4, <1>6, AttachIInv
<1>7. CASE stored # NoDict /\ Restore(p, n, fallible)
  <2>1. Restore(ParamsForSize(level, n + DictLen[stored]), n, fallible)
    BY <1>7
  <2> QED
    BY <1>2, <1>4, <1>7, <2>1, RestoreIInv
<1>8. CASE stored # NoDict /\ Fallback(p, n, fallible)
  <2> HIDE DEF p, m
  <2>1. Core(p, stored, n, fallible)
    BY <1>8 DEF Fallback
  <2> QED
    BY <1>1, <1>2, <1>3, <1>4, <2>1, CoreIInv
<1> QED
  BY <1>4, <1>5, <1>6, <1>7, <1>8

LEMMA CompressWithDictIInv ==
  ASSUME IInv, NEW d \in Dicts, NEW n \in InputLens, CompressWithDict(d, n)
  PROVE  IInv'
<1> DEFINE p == ParamsForSize(level, DictLen[d] + n)
<1>1. TypeOK /\ PreparedInv /\ level \in Levels
  BY DEF IInv, TypeOK
<1>2. n \in Nat /\ DictLen[d] + n \in Nat
  BY ConstantsAssumption
<1>3. p \in Params
  BY <1>1, <1>2, ParamsType
<1>4. ~call.searching /\ UNCHANGED ownVars /\ Core(p, d, n, FALSE)
  BY DEF CompressWithDict
<1> HIDE DEF p
<1> QED
  BY <1>1, <1>2, <1>3, <1>4, CoreIInv

-----------------------------------------------------------------------------
(* The prepared dictionary in every state, and the steps off a call.       *)
LEMMA PreparedTypes ==
  ASSUME NEW d \in Dicts \cup {NoDict}, NEW lev \in Levels, NEW size \in Nat, NEW r,
         r = IF d = NoDict THEN Nothing ELSE Prepare(d, lev, size)
  PROVE  r.snapshot \in Table /\ r.snapshotLong \in Table
<1>1. CASE d = NoDict
  BY <1>1, ZeroedType DEF Nothing, NoTable
<1>2. CASE d # NoDict
  BY <1>2, PrepareIs
<1> QED
  BY <1>1, <1>2

LEMMA SetLevelIInv ==
  ASSUME IInv, NEW lev \in Levels, SetLevel(lev)
  PROVE  IInv'
<1>1. TypeOK /\ PreparedInv
  BY DEF IInv
<1>2. /\ {main, long, beside, small} \subseteq Table
      /\ stored \in Dicts \cup {NoDict} /\ expected \in Nat
  BY <1>1 DEF TypeOK
<1>3. /\ call' = Idle /\ level' = lev /\ stored' = stored /\ expected' = expected
      /\ main' = main /\ long' = long /\ beside' = beside /\ small' = small
      /\ prepared' = PreparedFor(lev)
  BY <1>1, IdleCall DEF SetLevel
<1>4. prepared' = IF stored = NoDict THEN Nothing ELSE Prepare(stored, lev, expected)
  BY <1>1, <1>3 DEF PreparedFor, PreparedInv
<1>5. PreparedInv'
  BY <1>3, <1>4 DEF PreparedInv
<1>6. prepared'.snapshot \in Table /\ prepared'.snapshotLong \in Table
  BY <1>2, <1>4, PreparedTypes
<1> QED
  BY <1>2, <1>3, <1>5, <1>6, IdleIInv

LEMMA EndCallIInv ==
  ASSUME IInv, EndCall
  PROVE  IInv'
<1>1. TypeOK /\ PreparedInv
  BY DEF IInv
<1>2. /\ call' = Idle
      /\ level' = level /\ stored' = stored /\ expected' = expected /\ prepared' = prepared
      /\ main' = Aged(main) /\ long' = Aged(long) /\ beside' = Aged(beside)
      /\ small' = Aged(small)
  BY DEF EndCall, ownVars
<1>3. /\ {main', long', beside', small', prepared'.snapshot, prepared'.snapshotLong}
           \subseteq Table
      /\ level' \in Levels /\ stored' \in Dicts \cup {NoDict} /\ expected' \in Nat
  BY <1>1, <1>2, AgedType DEF TypeOK
<1>4. PreparedInv'
  BY <1>1, <1>2 DEF PreparedInv
<1> QED
  BY <1>2, <1>3, <1>4, IdleIInv

LEMMA InitIInv ==
  ASSUME Init
  PROVE  IInv
<1>1. /\ level \in Levels /\ stored \in Dicts \cup {NoDict} /\ expected \in Nat
      /\ call = Idle
  BY ConstantsAssumption DEF Init
<1>2. PreparedInv
  BY DEF Init, PreparedInv
<1>3. prepared.snapshot \in Table /\ prepared.snapshotLong \in Table
  BY <1>1, <1>2, PreparedTypes DEF PreparedInv
<1>4. NewTable(level) \in Table /\ NoTable \in Table
  BY <1>1, ZeroedType, ConstantsAssumption DEF NewTable, GreaterOf, NoTable, Level
<1>5. /\ Zeroed(prepared.snapshot.log) \in Table
      /\ Zeroed(prepared.snapshotLong.log) \in Table
  BY <1>3, ZeroedType DEF Table
<1>6. {main, long, beside, small} \subseteq Table
  BY <1>4, <1>5 DEF Init
<1> QED
  BY <1>1, <1>2, <1>3, <1>6
  DEF IInv, TypeOK, AttachedInv, TablesFit, OwnPositionsOnly, DictionaryFound, Idle

-----------------------------------------------------------------------------
(* A block adds positions of the input to the tables of its search, hashed *)
(* as the search hashes.                                                   *)
Grown(v, w) ==
  /\ v.key = w.key /\ v.table.log = w.table.log
  /\ w.table.entries \subseteq v.table.entries
  /\ \A e \in v.table.entries :
       e \in w.table.entries \/ e = [of |-> Input, key |-> w.key]

LEMMA GrownIs ==
  ASSUME NEW t \in Table, NEW key \in Key, NEW r, r = t \/ r = With(t, key)
  PROVE  r \in Table /\ Grown(View(r, key), View(t, key))
<1>1. CASE r = t
  BY <1>1 DEF Grown, View
<1>2. CASE r = With(t, key)
  <2>1. With(t, key) \in Table /\ With(t, key).log = t.log
        /\ With(t, key).entries = t.entries \cup {[of |-> Input, key |-> key]}
    BY WithIs
  <2> QED
    BY <1>2, <2>1 DEF Grown, View
<1> QED
  BY <1>1, <1>2

LEMMA BlockCall ==
  ASSUME TypeOK, SearchBlock
  PROVE  /\ call \in Call /\ call.searching
         /\ call' \in Call /\ call'.searching /\ call'.path = call.path
         /\ call'.params = call.params /\ call'.inputLog = call.inputLog
         /\ call'.dict = call.dict
<1>1. call.searching /\ call.blocks > 0 /\ call' = [call EXCEPT !.blocks = call.blocks - 1]
  BY DEF SearchBlock
<1>2. call \in Call
  BY <1>1 DEF TypeOK, Idle
<1>3. call.blocks - 1 \in Nat
  BY <1>1, <1>2 DEF Call
<1>4. call' \in Call
  BY <1>1, <1>2, <1>3 DEF Call
<1>5. /\ call'.searching /\ call'.path = call.path /\ call'.params = call.params
      /\ call'.inputLog = call.inputLog /\ call'.dict = call.dict
  BY <1>1, <1>2 DEF Call
<1> QED
  BY <1>1, <1>2, <1>4, <1>5

LEMMA BlockViews ==
  ASSUME TypeOK, SearchBlock
  PROVE  /\ {main', long', small'} \subseteq Table
         /\ \A v \in InputViews' : \E w \in InputViews : Grown(v, w)
         /\ \A v \in DictViews' : \E w \in DictViews : Grown(v, w)
         /\ DictViews # {} => DictViews' # {}
<1> DEFINE p == call.params
           key == InputKey
<1>1. call \in Call /\ call.searching
  BY BlockCall
<1>2. p \in Params /\ call.path \in Paths /\ call.inputLog \in Nat
  BY <1>1 DEF Call
<1>3. /\ call'.path = call.path /\ call'.params = p /\ call'.inputLog = call.inputLog
      /\ prepared' = prepared /\ beside' = beside
  BY BlockCall DEF SearchBlock, ownVars
<1>4. main \in Table /\ long \in Table /\ small \in Table
  BY DEF TypeOK
<1>5. MainKey(p) \in Key /\ LongKey(p) \in Key /\ key \in Key
  BY <1>2, KeyTypes DEF InputKey, Key, Params
<1>6. InputKey' = key
  BY <1>3 DEF InputKey
<1>7. CASE call.path = "attached"
  <2>1. (small' = small \/ small' = With(small, key)) /\ main' = main /\ long' = long
    BY <1>7 DEF SearchBlock
  <2>2. InputViews = {View(small, key)} /\ InputViews' = {View(small', key)}
    BY <1>3, <1>6, <1>7 DEF InputViews
  <2>3. DictViews' = DictViews
    BY <1>3, <1>7 DEF DictViews
  <2>4. \A v \in DictViews : Grown(v, v)
    BY DEF Grown
  <2> HIDE DEF key
  <2>5. small' \in Table /\ Grown(View(small', key), View(small, key))
    BY <1>4, <1>5, <2>1, GrownIs
  <2> QED
    BY <1>4, <2>1, <2>2, <2>3, <2>4, <2>5
<1>8. CASE call.path # "attached"
  <2>1. /\ main' = main \/ main' = With(main, MainKey(p))
        /\ long' = long \/ (p.strategy = "dfast" /\ long' = With(long, LongKey(p)))
        /\ small' = small
    BY <1>8 DEF SearchBlock, InputKey
  <2>2. /\ main' \in Table /\ Grown(View(main', MainKey(p)), View(main, MainKey(p)))
        /\ long' \in Table /\ Grown(View(long', LongKey(p)), View(long, LongKey(p)))
    BY <1>4, <1>5, <2>1, GrownIs
  <2>3. /\ InputViews = {View(main, MainKey(p))} \cup
                        IF p.strategy = "dfast" THEN {View(long, LongKey(p))} ELSE {}
        /\ InputViews' = {View(main', MainKey(p))} \cup
                         IF p.strategy = "dfast" THEN {View(long', LongKey(p))} ELSE {}
    BY <1>3, <1>8 DEF InputViews, InputKey
  <2>4. \A v \in InputViews' : \E w \in InputViews : Grown(v, w)
    BY <2>2, <2>3
  <2>5. CASE call.path = "prefilled"
    <3>1. DictViews = InputViews /\ DictViews' = InputViews'
      BY <1>3, <2>5 DEF DictViews
    <3> QED
      BY <1>4, <2>1, <2>2, <2>3, <2>4, <3>1
  <2>6. CASE call.path # "prefilled"
    <3>1. DictViews' = DictViews
      BY <1>3, <1>8, <2>6 DEF DictViews
    <3>2. \A v \in DictViews : Grown(v, v)
      BY DEF Grown
    <3> QED
      BY <1>4, <2>1, <2>2, <2>4, <3>1, <3>2
  <2> QED
    BY <2>5, <2>6
<1> QED
  BY <1>7, <1>8

LEMMA SearchBlockIInv ==
  ASSUME IInv, SearchBlock
  PROVE  IInv'
<1>1. TypeOK /\ PreparedInv /\ AttachedInv /\ TablesFit /\ OwnPositionsOnly
  BY DEF IInv
<1>2. call.searching
  BY DEF SearchBlock
<1>3. /\ call' \in Call /\ call'.searching /\ call'.path = call.path
      /\ call'.params = call.params /\ call'.dict = call.dict
  BY <1>1, BlockCall
<1>4. level' = level /\ stored' = stored /\ expected' = expected /\ prepared' = prepared
      /\ beside' = beside
  BY DEF SearchBlock, ownVars
<1>5. /\ {main', long', small'} \subseteq Table
      /\ \A v \in InputViews' : \E w \in InputViews : Grown(v, w)
      /\ \A v \in DictViews' : \E w \in DictViews : Grown(v, w)
      /\ DictViews # {} => DictViews' # {}
  BY <1>1, BlockViews
<1>6. TypeOK'
  <2>1. /\ level' \in Levels /\ stored' \in Dicts \cup {NoDict} /\ expected' \in Nat
        /\ beside' \in Table /\ prepared'.snapshot \in Table /\ prepared'.snapshotLong \in Table
    BY <1>1, <1>4 DEF TypeOK
  <2>2. call'.path = "attached" => call'.params.min \in DOMAIN prepared'.attached
    BY <1>1, <1>2, <1>3, <1>4 DEF AttachedInv
  <2> QED
    BY <1>3, <1>5, <2>1, <2>2 DEF TypeOK
<1>7. PreparedInv' /\ AttachedInv'
  BY <1>1, <1>2, <1>3, <1>4 DEF PreparedInv, AttachedInv
<1>8. TablesFit' /\ OwnPositionsOnly'
  <2> SUFFICES ASSUME NEW v \in Views'
               PROVE  /\ v.table.log = v.key.log
                      /\ \A e \in v.table.entries : e.of \in {Input, call.dict}
    BY <1>3 DEF TablesFit, OwnPositionsOnly
  <2>1. PICK w \in Views : Grown(v, w)
    BY <1>5 DEF Views
  <2>2. w.table.log = w.key.log /\ \A e \in w.table.entries : e.of \in {Input, call.dict}
    BY <1>1, <1>2 DEF TablesFit, OwnPositionsOnly
  <2> QED
    BY <2>1, <2>2 DEF Grown
<1>9. ASSUME OneWidthPerSize
      PROVE  DictionaryFound'
  <2> SUFFICES ASSUME call.dict # NoDict
               PROVE  /\ DictLen[call.dict] >= HashRead => DictViews' # {}
                      /\ \A v \in DictViews' : Serves(v.table, v.key, call.dict)
    BY <1>3 DEF DictionaryFound, Serves
  <2>1. /\ DictLen[call.dict] >= HashRead => DictViews # {}
        /\ \A w \in DictViews : Serves(w.table, w.key, call.dict)
    BY <1>2, <1>9 DEF IInv, DictionaryFound, Serves
  <2>2. ASSUME NEW v \in DictViews'
        PROVE  Serves(v.table, v.key, call.dict)
    <3>1. PICK w \in DictViews : Grown(v, w)
      BY <1>5
    <3>2. Serves(w.table, w.key, call.dict)
      BY <2>1
    <3> QED
      BY <3>1, <3>2 DEF Grown, Serves
  <2> QED
    BY <1>5, <2>1, <2>2
<1> QED
  BY <1>6, <1>7, <1>8, <1>9 DEF IInv

-----------------------------------------------------------------------------
LEMMA NextIInv ==
  ASSUME IInv, [Next]_vars
  PROVE  IInv'
<1>1. CASE \E n \in InputLens : \E fallible \in BOOLEAN : Compress(n, fallible)
  BY <1>1, CompressIInv
<1>2. CASE \E n \in InputLens : \E d \in Dicts : CompressWithDict(d, n)
  BY <1>2, CompressWithDictIInv
<1>3. CASE \E lev \in Levels : SetLevel(lev)
  BY <1>3, SetLevelIInv
<1>4. CASE SearchBlock
  BY <1>4, SearchBlockIInv
<1>5. CASE EndCall
  BY <1>5, EndCallIInv
<1>6. CASE UNCHANGED vars
  BY <1>6 DEF vars, ownVars, IInv, TypeOK, PreparedInv, AttachedInv, TablesFit,
    OwnPositionsOnly, DictionaryFound, Views, InputViews, DictViews, InputKey
<1> QED
  BY <1>1, <1>2, <1>3, <1>4, <1>5, <1>6 DEF Next

(* context.rs: in every reachable state the prepared dictionary is the one *)
(* that level, dictionary and expected size ask for, and a search's tables *)
(* are set up for it.                                                      *)
THEOREM Independent == Spec => []IInv
<1>1. Init => IInv
  BY InitIInv
<1>2. IInv /\ [Next]_vars => IInv'
  BY NextIInv
<1> QED
  BY <1>1, <1>2, PTL DEF Spec

(* context.rs: the tables and calls are of their types, and the search of  *)
(* an attached dictionary has the table that attached_table unwraps.       *)
THEOREM TypesHold == Spec => []TypeOK
<1>1. IInv => TypeOK
  BY DEF IInv
<1> QED
  BY <1>1, Independent, PTL

(* fast.rs, dfast.rs: the bits that a search keeps of a hash are those of  *)
(* the table it looks in, after any calls at any levels.                   *)
THEOREM SizesMatch == Spec => []TablesFit
<1>1. IInv => TablesFit
  BY DEF IInv
<1> QED
  BY <1>1, Independent, PTL

(* context.rs: no search sees a position of another frame, dictionary or   *)
(* level, though only what a call needs is cleared.                        *)
THEOREM NothingLeftOver == Spec => []OwnPositionsOnly
<1>1. IInv => OwnPositionsOnly
  BY DEF IInv
<1> QED
  BY <1>1, Independent, PTL

(* fast.rs, dfast.rs: a dictionary is hashed like the search that is to    *)
(* find it, on every path, if the levels tell the widths of large inputs'  *)
(* hashes by the size of the tables.                                       *)
THEOREM DictionaryServes ==
  ASSUME OneWidthPerSize
  PROVE  Spec => []DictionaryFound
<1>1. IInv => DictionaryFound
  BY DEF IInv
<1> QED
  BY <1>1, Independent, PTL
=============================================================================
